---- MODULE Spec2Model ----
(***************************************************************************)
(* Model of the stage-driven conversation orchestrator                     *)
(* (app/workflows/lead_workflow.py, LeadConversionWorkflow) together with  *)
(* the context model of app/models/lead_models_backup.py.                  *)
(*                                                                         *)
(* Python strings are TLA+ strings handled character by character with     *)
(* Head, Tail, SubSeq, Len and \o.  SANY cannot lex a backquote inside a   *)
(* string, so the backquote character of the code fences is written "~"    *)
(* throughout: "~~~json" stands for the fence opener and "~~~" for the     *)
(* bare fence.                                                             *)
(*                                                                         *)
(* Python values are tagged records: [t |-> "none"], [t |-> "bool", v],    *)
(* [t |-> "int", v], [t |-> "float", v] (v in hundredths), [t |-> "str",   *)
(* v], [t |-> "list", v] (sequence of values) and [t |-> "dict", v]        *)
(* (sequence of [k, v] entries in insertion order, keys unique).           *)
(***************************************************************************)
EXTENDS Integers, Sequences, FiniteSets, TLC

VARIABLES
    store,      \* session id -> persisted session_data (NoRecord when absent)
    inst,       \* workflow instance -> its fields (_context, workflow_session_state)
    runs,       \* number of run() calls made so far (bounded by MaxRuns)
    last,       \* observation of the last operation (inputs, intermediate results, outcome)
    probe,      \* input/output cell of the pure-function specifications
    storage,    \* how self.storage behaves: "ok", "read_raises" or "upsert_raises"
    pc          \* workflow instance -> position of its run() call, for the
                \* specification whose calls overlap (empty where calls are atomic)

vars == <<store, inst, runs, last, probe, storage, pc>>

-----------------------------------------------------------------------------
(* Python values *)

PyNone == [t |-> "none"]
PyBool(b) == [t |-> "bool", v |-> b]
PyInt(n) == [t |-> "int", v |-> n]
PyFloat(c) == [t |-> "float", v |-> c]
PyStr(s) == [t |-> "str", v |-> s]
PyList(q) == [t |-> "list", v |-> q]
PyDict(q) == [t |-> "dict", v |-> q]

EmptyDict == PyDict(<<>>)

IsNumeric(x) == x.t \in {"bool", "int", "float"}

\* numeric value in hundredths (bool is a subclass of int in Python)
Centi(x) ==
    IF x.t = "bool" THEN (IF x.v THEN 100 ELSE 0)
    ELSE IF x.t = "int" THEN 100 * x.v
    ELSE x.v

\* Python ==
PyEq(a, b) ==
    IF IsNumeric(a) /\ IsNumeric(b) THEN Centi(a) = Centi(b)
    ELSE a.t = b.t /\ (a.t = "none" \/ a.v = b.v)

\* Python truthiness (bool(x))
Truthy(x) ==
    CASE x.t = "none" -> FALSE
      [] x.t = "bool" -> x.v
      [] x.t \in {"int", "float"} -> x.v # 0
      [] x.t = "str" -> x.v # ""
      [] OTHER -> Len(x.v) > 0

\* a or b
PyOr(a, b) == IF Truthy(a) THEN a ELSE b

RECURSIVE DictIndex(_, _, _)
DictIndex(q, k, i) ==
    IF i > Len(q) THEN 0
    ELSE IF q[i].k = k THEN i
    ELSE DictIndex(q, k, i + 1)

DictHas(d, k) == DictIndex(d.v, k, 1) # 0

\* dict.get(k) with default None
DictGet(d, k) ==
    LET i == DictIndex(d.v, k, 1)
    IN  IF i = 0 THEN PyNone ELSE d.v[i].v

\* d[k] = x on the entry sequence: an existing key keeps its position
DictPut(q, k, x) ==
    LET i == DictIndex(q, k, 1)
    IN  IF i = 0 THEN Append(q, [k |-> k, v |-> x])
        ELSE [q EXCEPT ![i] = [k |-> k, v |-> x]]

-----------------------------------------------------------------------------
(* str methods used by the workflow *)

Whitespace == {" ", "\n", "\t", "\r"}
Digits == {"0", "1", "2", "3", "4", "5", "6", "7", "8", "9"}

Ch(s, i) == IF i >= 1 /\ i <= Len(s) THEN SubSeq(s, i, i) ELSE ""

\* The scans below are written without a recursion step per character (a position
\* is chosen from a set, a per-character map halves the string), so that the
\* evaluation depth stays logarithmic in the length of the reply.
Least(S) == CHOOSE k \in S : \A j \in S : k <= j

\* str.strip()
Strip(s) ==
    LET solid == {k \in 1..Len(s) : SubSeq(s, k, k) \notin Whitespace}
    IN  IF solid = {} THEN ""
        ELSE SubSeq(s, Least(solid), CHOOSE k \in solid : \A j \in solid : k >= j)

StartsAt(s, p, i) == i + Len(p) - 1 <= Len(s) /\ SubSeq(s, i, i + Len(p) - 1) = p

\* str.find(p) + 1: position of the first occurrence of p at or after i, 0 when absent
FindFrom(s, p, i) ==
    LET hits == {k \in i..(Len(s) - Len(p) + 1) : StartsAt(s, p, k)}
    IN  IF hits = {} THEN 0 ELSE Least(hits)

\* p in s
Contains(s, p) == FindFrom(s, p, 1) # 0

\* s.split(p, 1) when p occurs in s
SplitOnce(s, p) ==
    LET i == FindFrom(s, p, 1)
    IN  <<SubSeq(s, 1, i - 1), SubSeq(s, i + Len(p), Len(s))>>

\* s.replace(p, ""): one step per occurrence, left to right
RECURSIVE Remove(_, _)
Remove(s, p) ==
    LET i == FindFrom(s, p, 1)
    IN  IF i = 0 THEN s
        ELSE SubSeq(s, 1, i - 1) \o Remove(SubSeq(s, i + Len(p), Len(s)), p)

\* s.replace(p, r) for a single-character p
RECURSIVE ReplaceChar(_, _, _)
ReplaceChar(s, p, r) ==
    IF s = "" THEN ""
    ELSE IF Len(s) = 1 THEN (IF s = p THEN r ELSE s)
    ELSE LET h == Len(s) \div 2
         IN  ReplaceChar(SubSeq(s, 1, h), p, r) \o ReplaceChar(SubSeq(s, h + 1, Len(s)), p, r)

\* re.sub of a negated character class: keep only the characters of the set
RECURSIVE KeepChars(_, _)
KeepChars(s, keep) ==
    IF s = "" THEN ""
    ELSE IF Len(s) = 1 THEN (IF s \in keep THEN s ELSE "")
    ELSE LET h == Len(s) \div 2
         IN  KeepChars(SubSeq(s, 1, h), keep) \o KeepChars(SubSeq(s, h + 1, Len(s)), keep)

UpperToLower ==
    [c \in {"A", "B", "C", "D", "E", "F", "G", "H", "I", "J", "K", "L", "M",
            "N", "O", "P", "Q", "R", "S", "T", "U", "V", "W", "X", "Y", "Z"} |->
        CASE c = "A" -> "a" [] c = "B" -> "b" [] c = "C" -> "c" [] c = "D" -> "d"
          [] c = "E" -> "e" [] c = "F" -> "f" [] c = "G" -> "g" [] c = "H" -> "h"
          [] c = "I" -> "i" [] c = "J" -> "j" [] c = "K" -> "k" [] c = "L" -> "l"
          [] c = "M" -> "m" [] c = "N" -> "n" [] c = "O" -> "o" [] c = "P" -> "p"
          [] c = "Q" -> "q" [] c = "R" -> "r" [] c = "S" -> "s" [] c = "T" -> "t"
          [] c = "U" -> "u" [] c = "V" -> "v" [] c = "W" -> "w" [] c = "X" -> "x"
          [] c = "Y" -> "y" [] OTHER -> "z"]

\* str.lower() (ASCII letters; the inputs of the model carry no other cased letters)
RECURSIVE Lower(_)
Lower(s) ==
    IF s = "" THEN ""
    ELSE IF Len(s) = 1 THEN (IF s \in DOMAIN UpperToLower THEN UpperToLower[s] ELSE s)
    ELSE LET h == Len(s) \div 2
         IN  Lower(SubSeq(s, 1, h)) \o Lower(SubSeq(s, h + 1, Len(s)))

LowerLetters ==
    {"a", "b", "c", "d", "e", "f", "g", "h", "i", "j", "k", "l", "m",
     "n", "o", "p", "q", "r", "s", "t", "u", "v", "w", "x", "y", "z"}

-----------------------------------------------------------------------------
(* json.loads, for the JSON subset the replies of the model use: objects,   *)
(* arrays, strings without escapes, integers, decimals with at most two     *)
(* fraction digits, true, false, null.                                      *)

JsonFail == [ok |-> FALSE, val |-> PyNone, pos |-> 0]
JsonOk(x, p) == [ok |-> TRUE, val |-> x, pos |-> p]

RECURSIVE SkipWs(_, _)
SkipWs(s, i) == IF Ch(s, i) \in Whitespace THEN SkipWs(s, i + 1) ELSE i

RECURSIVE ParseString(_, _, _)
ParseString(s, i, acc) ==
    LET c == Ch(s, i)
    IN  IF c = "" \/ c = "\\" \/ c = "\n" \/ c = "\t" \/ c = "\r" THEN JsonFail
        ELSE IF c = "\"" THEN JsonOk(PyStr(acc), i + 1)
        ELSE ParseString(s, i + 1, acc \o c)

DigitValue(c) ==
    CASE c = "0" -> 0 [] c = "1" -> 1 [] c = "2" -> 2 [] c = "3" -> 3 [] c = "4" -> 4
      [] c = "5" -> 5 [] c = "6" -> 6 [] c = "7" -> 7 [] c = "8" -> 8 [] OTHER -> 9

\* reads a run of digits from i: [n |-> value, pos |-> next position, cnt |-> digits read]
RECURSIVE ParseDigits(_, _, _, _)
ParseDigits(s, i, n, cnt) ==
    IF Ch(s, i) \in Digits
    THEN ParseDigits(s, i + 1, 10 * n + DigitValue(Ch(s, i)), cnt + 1)
    ELSE [n |-> n, pos |-> i, cnt |-> cnt]

ParseNumber(s, i) ==
    LET neg == Ch(s, i) = "-"
        whole == ParseDigits(s, IF neg THEN i + 1 ELSE i, 0, 0)
        sign == IF neg THEN -1 ELSE 1
    IN  IF whole.cnt = 0 THEN JsonFail
        ELSE IF Ch(s, whole.pos) = "."
        THEN LET frac == ParseDigits(s, whole.pos + 1, 0, 0)
             IN  IF frac.cnt = 0 \/ frac.cnt > 2 THEN JsonFail
                 ELSE JsonOk(PyFloat(sign * (100 * whole.n
                                + (IF frac.cnt = 1 THEN 10 * frac.n ELSE frac.n))),
                             frac.pos)
        ELSE JsonOk(PyInt(sign * whole.n), whole.pos)

RECURSIVE ParseValue(_, _)
RECURSIVE ParseMembers(_, _, _)
RECURSIVE ParseElements(_, _, _)

ParseValue(s, i) ==
    LET c == Ch(s, i)
    IN  CASE c = "{" ->
                LET j == SkipWs(s, i + 1)
                IN  IF Ch(s, j) = "}" THEN JsonOk(EmptyDict, j + 1)
                    ELSE ParseMembers(s, j, <<>>)
          [] c = "[" ->
                LET j == SkipWs(s, i + 1)
                IN  IF Ch(s, j) = "]" THEN JsonOk(PyList(<<>>), j + 1)
                    ELSE ParseElements(s, j, <<>>)
          [] c = "\"" -> ParseString(s, i + 1, "")
          [] c = "t" -> IF StartsAt(s, "true", i) THEN JsonOk(PyBool(TRUE), i + 4) ELSE JsonFail
          [] c = "f" -> IF StartsAt(s, "false", i) THEN JsonOk(PyBool(FALSE), i + 5) ELSE JsonFail
          [] c = "n" -> IF StartsAt(s, "null", i) THEN JsonOk(PyNone, i + 4) ELSE JsonFail
          [] c = "-" \/ c \in Digits -> ParseNumber(s, i)
          [] OTHER -> JsonFail

\* i is at the first character of a member ("key": value)
ParseMembers(s, i, acc) ==
    IF Ch(s, i) # "\"" THEN JsonFail
    ELSE LET key == ParseString(s, i + 1, "")
         IN  IF ~key.ok THEN JsonFail
             ELSE LET colon == SkipWs(s, key.pos)
                  IN  IF Ch(s, colon) # ":" THEN JsonFail
                      ELSE LET item == ParseValue(s, SkipWs(s, colon + 1))
                           IN  IF ~item.ok THEN JsonFail
                               ELSE LET next == SkipWs(s, item.pos)
                                        entries == DictPut(acc, key.val.v, item.val)
                                    IN  IF Ch(s, next) = "}" THEN JsonOk(PyDict(entries), next + 1)
                                        ELSE IF Ch(s, next) = ","
                                        THEN ParseMembers(s, SkipWs(s, next + 1), entries)
                                        ELSE JsonFail

\* i is at the first character of an array element
ParseElements(s, i, acc) ==
    LET item == ParseValue(s, i)
    IN  IF ~item.ok THEN JsonFail
        ELSE LET next == SkipWs(s, item.pos)
                 items == Append(acc, item.val)
             IN  IF Ch(s, next) = "]" THEN JsonOk(PyList(items), next + 1)
                 ELSE IF Ch(s, next) = ","
                 THEN ParseElements(s, SkipWs(s, next + 1), items)
                 ELSE JsonFail

\* json.loads(text): [ok |-> FALSE] stands for JSONDecodeError
json_loads(text) ==
    LET r == ParseValue(text, SkipWs(text, 1))
    IN  IF r.ok /\ SkipWs(text, r.pos) > Len(text)
        THEN [ok |-> TRUE, val |-> r.val]
        ELSE [ok |-> FALSE, val |-> PyNone]

-----------------------------------------------------------------------------
(* ConversationStage and the stage order *)

PRIMARY_STAGE_SEQUENCE ==
    <<"inicial", "confirmacao_inicial", "qualificacao", "proposta", "contratacao",
      "coleta_documentos_pessoais", "definicao_empresa", "escolha_cnae",
      "endereco_comercial", "revisao_final", "processamento", "concluido">>

ConversationStage ==
    {PRIMARY_STAGE_SEQUENCE[i] : i \in 1..Len(PRIMARY_STAGE_SEQUENCE)} \cup {"pausado", "abandonado"}

NoStage == "<none>"

-----------------------------------------------------------------------------
(* Response parser *)

DATA_MARKER == "---DATA---"

\* the tuple returned without structured data: (message_text, {}, None)
Degraded(message_text) ==
    [message |-> message_text, extracted |-> EmptyDict, suggested |-> NoStage]

\* if next_stage_value: ConversationStage(next_stage_value), the member whose value is
\* the string; NoStage for ValueError and for a falsy value
SuggestedStage(next_stage_value) ==
    IF Truthy(next_stage_value) /\ next_stage_value.t = "str"
       /\ next_stage_value.v \in ConversationStage
    THEN next_stage_value.v
    ELSE NoStage

\* the tuple built from the decoded payload; a payload that is not a dict, or text
\* that does not decode, takes the except branch
FromPayload(message_text, payload) ==
    IF ~payload.ok \/ payload.val.t # "dict" THEN Degraded(message_text)
    ELSE [message |-> message_text,
          extracted |-> PyOr(DictGet(payload.val, "extracted"), EmptyDict),
          suggested |-> SuggestedStage(PyOr(DictGet(payload.val, "next_stage"),
                                            DictGet(payload.val, "stage")))]

\* if not json_text: return message_text, {}, None; else json.loads(json_text)
FromJsonText(message_text, json_text) ==
    IF json_text = "" THEN Degraded(message_text)
    ELSE FromPayload(message_text, json_loads(json_text))

\* json_part.strip().replace("~~~json", "").replace("~~~", "").strip()
JsonPart(json_part) == Strip(Remove(Remove(Strip(json_part), "~~~json"), "~~~"))

\* variant that keeps the whole stripped reply as message when the marker is present
_parse_agent_response_whole(raw_response) ==
    IF raw_response = "" THEN Degraded("")
    ELSE IF ~Contains(raw_response, DATA_MARKER) THEN Degraded(Strip(raw_response))
    ELSE FromJsonText(Strip(raw_response),
                      JsonPart(SplitOnce(raw_response, DATA_MARKER)[2]))

\* _parse_agent_response: (message_text, extracted, suggested_stage)
_parse_agent_response(raw_response) ==
    IF raw_response = "" THEN Degraded("")
    ELSE IF ~Contains(raw_response, DATA_MARKER) THEN Degraded(Strip(raw_response))
    ELSE FromJsonText(Strip(SplitOnce(raw_response, DATA_MARKER)[1]),
                      JsonPart(SplitOnce(raw_response, DATA_MARKER)[2]))

-----------------------------------------------------------------------------
(* str(value) and repr(value) *)

DigitChar == <<"0", "1", "2", "3", "4", "5", "6", "7", "8", "9">>

RECURSIVE NatToStr(_)
NatToStr(n) == IF n < 10 THEN DigitChar[n + 1] ELSE NatToStr(n \div 10) \o DigitChar[(n % 10) + 1]

IntToStr(n) == IF n < 0 THEN "-" \o NatToStr(-n) ELSE NatToStr(n)

\* repr of a float held in hundredths: 5000.0, 1234.5, 1234.56
FloatToStr(c) ==
    LET a == IF c < 0 THEN -c ELSE c
        frac == a % 100
    IN  (IF c < 0 THEN "-" ELSE "") \o NatToStr(a \div 100) \o "." \o
        (IF frac % 10 = 0 THEN DigitChar[(frac \div 10) + 1]
         ELSE DigitChar[(frac \div 10) + 1] \o DigitChar[(frac % 10) + 1])

RECURSIVE PyRepr(_)
RECURSIVE JoinRepr(_, _)
RECURSIVE JoinItems(_, _)

\* repr(value)
PyRepr(x) ==
    CASE x.t = "none" -> "None"
      [] x.t = "bool" -> IF x.v THEN "True" ELSE "False"
      [] x.t = "int" -> IntToStr(x.v)
      [] x.t = "float" -> FloatToStr(x.v)
      [] x.t = "str" -> "'" \o x.v \o "'"
      [] x.t = "list" -> "[" \o JoinRepr(x.v, 1) \o "]"
      [] OTHER -> "{" \o JoinItems(x.v, 1) \o "}"

JoinRepr(q, i) ==
    IF i > Len(q) THEN ""
    ELSE PyRepr(q[i]) \o (IF i < Len(q) THEN ", " ELSE "") \o JoinRepr(q, i + 1)

JoinItems(q, i) ==
    IF i > Len(q) THEN ""
    ELSE "'" \o q[i].k \o "': " \o PyRepr(q[i].v)
         \o (IF i < Len(q) THEN ", " ELSE "") \o JoinItems(q, i + 1)

\* str(value)
PyStrOf(x) == IF x.t = "str" THEN x.v ELSE PyRepr(x)

\* value == other for any two values (lists element by element, dicts by key)
RECURSIVE PyEqual(_, _)
PyEqual(a, b) ==
    IF a.t = "list" /\ b.t = "list"
    THEN Len(a.v) = Len(b.v) /\ \A i \in 1..Len(a.v) : PyEqual(a.v[i], b.v[i])
    ELSE IF a.t = "dict" /\ b.t = "dict"
    THEN /\ Len(a.v) = Len(b.v)
         /\ \A i \in 1..Len(a.v) : DictHas(b, a.v[i].k) /\ PyEqual(a.v[i].v, DictGet(b, a.v[i].k))
    ELSE PyEq(a, b)

\* value in (None, "")
IsNoneOrEmpty(x) == x.t = "none" \/ (x.t = "str" /\ x.v = "")

\* value is True
IsTrue(x) == x.t = "bool" /\ x.v

-----------------------------------------------------------------------------
(* Field registry *)

FIELD_SECTION_MAP ==
    ("nome" :> <<"lead_data", "nome_completo">>) @@
    ("nome_cliente" :> <<"lead_data", "nome_completo">>) @@
    ("nome_completo" :> <<"lead_data", "nome_completo">>) @@
    ("email" :> <<"lead_data", "email">>) @@
    ("telefone" :> <<"lead_data", "telefone">>) @@
    ("tipo_interesse" :> <<"lead_data", "tipo_interesse">>) @@
    ("cpf" :> <<"lead_data", "cpf">>) @@
    ("data_nascimento" :> <<"lead_data", "data_nascimento">>) @@
    ("renda_mensal" :> <<"lead_data", "renda_mensal">>) @@
    ("tipo_negocio" :> <<"business_profile", "tipo_negocio">>) @@
    ("estrutura_societaria" :> <<"business_profile", "estrutura_societaria">>) @@
    ("numero_socios" :> <<"business_profile", "numero_socios">>) @@
    ("faturamento_mei_ok" :> <<"business_profile", "faturamento_mei_ok">>) @@
    ("observacao_qualificacao" :> <<"business_profile", "observacao">>) @@
    ("aceite_proposta" :> <<"proposal_status", "aceite_proposta">>) @@
    ("aceite" :> <<"proposal_status", "aceite_proposta">>) @@
    ("motivo_objecao" :> <<"proposal_status", "motivo_objecao">>) @@
    ("objecao_resolvida" :> <<"proposal_status", "objecao_resolvida">>) @@
    ("nome_contrato" :> <<"contract_data", "nome_completo">>) @@
    ("cpf_contrato" :> <<"contract_data", "cpf">>) @@
    ("email_contrato" :> <<"contract_data", "email">>) @@
    ("telefone_contrato" :> <<"contract_data", "telefone">>) @@
    ("data_nascimento_contrato" :> <<"contract_data", "data_nascimento">>) @@
    ("metodo_assinatura" :> <<"contract_data", "metodo_assinatura">>) @@
    ("contrato_assinado" :> <<"contract_data", "contrato_assinado">>) @@
    ("rg_frente" :> <<"document_status", "rg_frente">>) @@
    ("rg_verso" :> <<"document_status", "rg_verso">>) @@
    ("cnh_frente" :> <<"document_status", "rg_frente">>) @@
    ("cnh_verso" :> <<"document_status", "rg_verso">>) @@
    ("comprovante_residencia" :> <<"document_status", "comprovante_residencia">>) @@
    ("titulo_eleitor" :> <<"document_status", "titulo_eleitor">>) @@
    ("documento_valido" :> <<"document_status", "documento_valido">>) @@
    ("nome_fantasia" :> <<"company_profile", "nome_fantasia">>) @@
    ("razao_social" :> <<"company_profile", "razao_social">>) @@
    ("razao_social_sugerida" :> <<"company_profile", "razao_social">>) @@
    ("capital_social" :> <<"company_profile", "capital_social">>) @@
    ("participacoes" :> <<"company_profile", "participacoes">>) @@
    ("participacoes_definidas" :> <<"company_profile", "participacoes_definidas">>) @@
    ("descricao_atividade" :> <<"company_profile", "descricao_atividade">>) @@
    ("cnae_principal" :> <<"company_profile", "cnae_principal">>) @@
    ("cnae_principal_codigo" :> <<"company_profile", "cnae_principal_codigo">>) @@
    ("cnae_principal_descricao" :> <<"company_profile", "cnae_principal_descricao">>) @@
    ("cnaes_secundarios" :> <<"company_profile", "cnaes_secundarios">>) @@
    ("cnaes_confirmados" :> <<"company_profile", "cnaes_confirmados">>) @@
    ("endereco_tipo" :> <<"company_profile", "endereco_tipo">>) @@
    ("cidade_escritorio_virtual" :> <<"company_profile", "cidade_escritorio_virtual">>) @@
    ("aceite_escritorio_virtual" :> <<"company_profile", "aceite_escritorio_virtual">>) @@
    ("cep" :> <<"company_profile", "cep">>) @@
    ("numero" :> <<"company_profile", "numero">>) @@
    ("complemento" :> <<"company_profile", "complemento">>) @@
    ("endereco_completo" :> <<"company_profile", "endereco_completo">>) @@
    ("endereco_confirmado" :> <<"company_profile", "endereco_confirmado">>) @@
    ("confirmacao_inicial" :> <<"initial_confirmation", "confirmado">>) @@
    ("dados_corretos" :> <<"initial_confirmation", "confirmado">>) @@
    ("precisa_ajustar" :> <<"initial_confirmation", "precisa_ajustar">>) @@
    ("revisao_confirmada" :> <<"review_status", "confirmado">>) @@
    ("precisa_editar" :> <<"review_status", "precisa_editar">>) @@
    ("campo_para_editar" :> <<"review_status", "campo_para_editar">>) @@
    ("processo_status" :> <<"process_status", "status">>) @@
    ("processo_etapa" :> <<"process_status", "etapa_atual">>) @@
    ("processo_mensagem" :> <<"process_status", "mensagem">>) @@
    ("processo_finalizado" :> <<"process_status", "finalizado">>) @@
    ("cnpj" :> <<"process_status", "cnpj">>) @@
    ("tempo_estimado" :> <<"process_status", "tempo_estimado">>)

BOOL_KEYS ==
    {"faturamento_mei_ok", "aceite_proposta", "aceite", "objecao_resolvida",
     "contrato_assinado", "documento_valido", "participacoes_definidas",
     "cnaes_confirmados", "aceite_escritorio_virtual", "endereco_confirmado",
     "revisao_confirmada", "precisa_editar", "processo_finalizado"}

INT_KEYS == {"numero_socios"}
FLOAT_KEYS == {"renda_mensal", "capital_social"}
LIST_KEYS == {"cnaes_secundarios", "participacoes"}

-----------------------------------------------------------------------------
(* Value coercer.  NoValue is the None a coercion returns. *)

\* int(text) / float(text) on a stripped literal: optional sign, digits, and for
\* float an optional fraction (digits beyond the second are dropped: the model
\* holds floats in hundredths).  [ok |-> FALSE] stands for ValueError.
ParseDecimal(text, allowFraction) ==
    LET s == Strip(text)
        signed == Ch(s, 1) \in {"-", "+"}
        sign == IF Ch(s, 1) = "-" THEN -1 ELSE 1
        whole == ParseDigits(s, IF signed THEN 2 ELSE 1, 0, 0)
        frac == ParseDigits(s, whole.pos + 1, 0, 0)
        twoDigits == ParseDigits(Ch(s, whole.pos + 1) \o Ch(s, whole.pos + 2), 1, 0, 0)
    IN  IF whole.pos > Len(s) /\ whole.cnt > 0
        THEN [ok |-> TRUE, centi |-> sign * 100 * whole.n, whole |-> sign * whole.n]
        ELSE IF allowFraction /\ Ch(s, whole.pos) = "." /\ frac.pos > Len(s)
                /\ whole.cnt + frac.cnt > 0
        THEN [ok |-> TRUE,
              centi |-> sign * (100 * whole.n
                          + (IF twoDigits.cnt = 1 THEN 10 * twoDigits.n ELSE twoDigits.n)),
              whole |-> sign * whole.n]
        ELSE [ok |-> FALSE, centi |-> 0, whole |-> 0]

\* int(value), a float truncated toward zero; None for TypeError / ValueError
CoerceInt(value) ==
    CASE value.t = "bool" -> PyInt(IF value.v THEN 1 ELSE 0)
      [] value.t = "int" -> value
      [] value.t = "float" ->
            PyInt(IF value.v < 0 THEN -((-value.v) \div 100) ELSE value.v \div 100)
      [] value.t = "str" ->
            LET r == ParseDecimal(value.v, FALSE)
            IN  IF r.ok THEN PyInt(r.whole) ELSE PyNone
      [] OTHER -> PyNone

\* float(str(value).replace("R$", "").replace(".", "").replace(",", ".")); None for ValueError
CoerceFloat(value) ==
    LET cleaned == ReplaceChar(Remove(Remove(PyStrOf(value), "R$"), "."), ",", ".")
        r == ParseDecimal(cleaned, TRUE)
    IN  IF r.ok THEN PyFloat(r.centi) ELSE PyNone

CoerceBool(value) ==
    CASE value.t = "bool" -> value
      [] value.t \in {"int", "float"} -> PyBool(value.v # 0)
      [] value.t = "str" ->
            LET lowered == Lower(Strip(value.v))
            IN  IF lowered \in {"sim", "yes", "y", "true", "verdade", "confirmo", "ok"}
                THEN PyBool(TRUE)
                ELSE IF lowered \in {"não", "nao", "no", "false", "n"}
                THEN PyBool(FALSE)
                ELSE PyNone
      [] OTHER -> PyNone

\* re.split(r"[,;]", text), each part stripped, empty parts dropped
RECURSIVE SplitList(_, _, _)
SplitList(s, cur, acc) ==
    LET flush == IF Strip(cur) # "" THEN Append(acc, PyStr(Strip(cur))) ELSE acc
    IN  IF s = "" THEN flush
        ELSE IF Head(s) \in {",", ";"} THEN SplitList(Tail(s), "", flush)
        ELSE SplitList(Tail(s), cur \o Head(s), acc)

CoerceCpf(value) ==
    LET digits == KeepChars(PyStrOf(value), Digits)
    IN  IF Len(digits) = 11
        THEN PyStr(SubSeq(digits, 1, 3) \o "." \o SubSeq(digits, 4, 6) \o "."
                   \o SubSeq(digits, 7, 9) \o "-" \o SubSeq(digits, 10, 11))
        ELSE PyNone

TipoInteresseMap ==
    ("1" :> "primeira_empresa") @@ ("primeira" :> "primeira_empresa") @@
    ("primeira empresa" :> "primeira_empresa") @@
    ("abrindo primeira empresa" :> "primeira_empresa") @@
    ("primeira_empresa" :> "primeira_empresa") @@
    ("2" :> "nova_empresa") @@ ("nova" :> "nova_empresa") @@
    ("nova empresa" :> "nova_empresa") @@ ("abrindo nova empresa" :> "nova_empresa") @@
    ("tenho outras" :> "nova_empresa") @@ ("tenho outra" :> "nova_empresa") @@
    ("nova_empresa" :> "nova_empresa") @@
    ("3" :> "conhecendo") @@ ("conhecendo" :> "conhecendo") @@
    ("apenas conhecendo" :> "conhecendo") @@ ("somente conhecendo" :> "conhecendo") @@
    ("curioso" :> "conhecendo")

TipoNegocioMap ==
    ("comercio" :> "comercio") @@ ("comércio" :> "comercio") @@ ("venda" :> "comercio") @@
    ("produtos" :> "comercio") @@ ("servicos" :> "servicos") @@ ("serviços" :> "servicos") @@
    ("servico" :> "servicos") @@ ("serviço" :> "servicos") @@ ("consultoria" :> "servicos") @@
    ("industria" :> "industria") @@ ("indústria" :> "industria") @@
    ("industrial" :> "industria") @@ ("fabricacao" :> "industria") @@
    ("fabricação" :> "industria") @@ ("misto" :> "misto") @@
    ("comercio servicos" :> "misto") @@ ("comércio serviços" :> "misto") @@
    ("comercio e servicos" :> "misto") @@ ("comércio e serviços" :> "misto")

EstruturaMap ==
    ("mei" :> "mei") @@ ("sozinho" :> "mei") @@ ("individual" :> "mei") @@
    ("sem socios" :> "mei") @@ ("sem sócios" :> "mei") @@ ("socios" :> "socios") @@
    ("sócios" :> "socios") @@ ("com socios" :> "socios") @@ ("com sócios" :> "socios") @@
    ("sociedade" :> "socios") @@ ("ltda" :> "socios") @@ ("indefinido" :> "indefinido") @@
    ("ainda nao sei" :> "indefinido") @@ ("ainda não sei" :> "indefinido") @@
    ("nao sei" :> "indefinido") @@ ("não sei" :> "indefinido")

MetodoAssinaturaMap ==
    ("sms" :> "sms") @@ ("celular" :> "sms") @@ ("telefone" :> "sms") @@
    ("mensagem" :> "sms") @@ ("email" :> "email") @@ ("e mail" :> "email") @@
    ("e-mail" :> "email") @@ ("whatsapp" :> "whatsapp") @@ ("zap" :> "whatsapp")

EnderecoTipoMap ==
    ("virtual" :> "virtual") @@ ("escritorio virtual" :> "virtual") @@
    ("escritório virtual" :> "virtual") @@ ("residencial" :> "residencial") @@
    ("casa" :> "residencial") @@ ("comercial" :> "comercial") @@
    ("escritorio proprio" :> "comercial") @@ ("escritório proprio" :> "comercial") @@
    ("escritorio próprio" :> "comercial") @@ ("escritório próprio" :> "comercial")

\* re.sub(r"[^a-z ]", "", str(value).lower()).strip()
NormalizeLetters(value) == Strip(KeepChars(Lower(PyStrOf(value)), LowerLetters \cup {" "}))

\* re.sub(r"[^a-z0-9 ]", "", str(value).lower()).strip()
NormalizeAlnum(value) ==
    Strip(KeepChars(Lower(PyStrOf(value)), LowerLetters \cup Digits \cup {" "}))

\* mapping.get(normalized, normalized or None)
MapOrSelf(mapping, normalized) ==
    IF normalized \in DOMAIN mapping THEN PyStr(mapping[normalized])
    ELSE IF normalized # "" THEN PyStr(normalized)
    ELSE PyNone

_coerce_value(key, value) ==
    IF value.t = "none" THEN PyNone
    ELSE IF key \in BOOL_KEYS THEN CoerceBool(value)
    ELSE IF key \in INT_KEYS THEN CoerceInt(value)
    ELSE IF key \in FLOAT_KEYS THEN CoerceFloat(value)
    ELSE IF key \in LIST_KEYS /\ value.t = "list" THEN value
    ELSE IF key \in LIST_KEYS /\ value.t = "str" THEN PyList(SplitList(value.v, "", <<>>))
    ELSE IF key = "cpf" THEN CoerceCpf(value)
    ELSE IF key = "tipo_interesse"
    THEN LET normalized == NormalizeAlnum(value)
         IN  IF normalized \in DOMAIN TipoInteresseMap
             THEN PyStr(TipoInteresseMap[normalized]) ELSE PyNone
    ELSE IF key = "tipo_negocio" THEN MapOrSelf(TipoNegocioMap, NormalizeLetters(value))
    ELSE IF key = "estrutura_societaria" THEN MapOrSelf(EstruturaMap, NormalizeLetters(value))
    ELSE IF key = "metodo_assinatura" THEN MapOrSelf(MetodoAssinaturaMap, NormalizeLetters(value))
    ELSE IF key = "endereco_tipo" THEN MapOrSelf(EnderecoTipoMap, NormalizeLetters(value))
    ELSE IF value.t = "str" THEN PyStr(Strip(value.v))
    ELSE value

-----------------------------------------------------------------------------
(* Conversation context (ConversationContext / LeadData).                   *)
(* data maps <<section, attribute>> to the stored value; an attribute that  *)
(* is absent from a section dict, or a LeadData field that is None, is      *)
(* absent from the map.  The timestamps, qualification_reason and           *)
(* validation_attempts take part in no decision and are left out.           *)

EmptyData == [k \in {} |-> PyNone]

NewContext ==
    [stage |-> "inicial",
     data |-> EmptyData,
     conversation_turns |-> 0,
     messages_exchanged |-> <<>>,
     is_qualified |-> FALSE,
     fields_collected |-> <<>>]

\* section.get(attribute) / getattr(lead_data, attribute, None)
Get(context, section, attribute) ==
    IF <<section, attribute>> \in DOMAIN context.data
    THEN context.data[<<section, attribute>>]
    ELSE PyNone

\* section[attribute] = value / setattr(lead_data, attribute, value)
Put(context, section, attribute, value) ==
    [context EXCEPT !.data =
        [k \in DOMAIN context.data \cup {<<section, attribute>>} |->
            IF k = <<section, attribute>> THEN value ELSE context.data[k]]]

_track_field_collection(context, field_name) ==
    IF \E i \in 1..Len(context.fields_collected) : context.fields_collected[i] = field_name
    THEN context
    ELSE [context EXCEPT !.fields_collected = Append(@, field_name)]

-----------------------------------------------------------------------------
(* Stage rules and Determinizer *)

_get_missing_fields(stage, context) ==
    LET lead(a) == Get(context, "lead_data", a)
        business(a) == Get(context, "business_profile", a)
        contract(a) == Get(context, "contract_data", a)
        documents(a) == Get(context, "document_status", a)
        company(a) == Get(context, "company_profile", a)
        miss(cond, descriptor) == IF cond THEN <<descriptor>> ELSE <<>>
    IN  CASE stage = "inicial" ->
                miss(~(Truthy(lead("nome_completo")) \/ Truthy(lead("tipo_interesse"))
                       \/ Truthy(business("tipo_negocio"))
                       \/ Truthy(business("estrutura_societaria"))),
                     "informações básicas sobre suas necessidades")
          [] stage = "confirmacao_inicial" ->
                miss(~Truthy(Get(context, "initial_confirmation", "confirmado")),
                     "confirmação dos dados extraídos")
          [] stage = "qualificacao" ->
                miss(~Truthy(business("tipo_negocio")), "tipo de negócio")
                \o miss(~Truthy(business("estrutura_societaria")), "estrutura societária")
                \o miss(PyEq(business("estrutura_societaria"), PyStr("mei"))
                        /\ business("faturamento_mei_ok").t = "none",
                        "confirmação de faturamento MEI")
                \o miss(PyEq(business("estrutura_societaria"), PyStr("socios"))
                        /\ ~Truthy(business("numero_socios")),
                        "número de sócios")
          [] stage = "proposta" ->
                miss(~IsTrue(Get(context, "proposal_status", "aceite_proposta")),
                     "aceite da proposta")
          [] stage = "contratacao" ->
                miss(~Truthy(PyOr(contract("nome_completo"), lead("nome_completo"))),
                     "nome completo para contrato")
                \o miss(~Truthy(PyOr(contract("cpf"), lead("cpf"))), "CPF")
                \o miss(~Truthy(PyOr(contract("email"), lead("email"))), "email para contrato")
                \o miss(~Truthy(PyOr(contract("telefone"), lead("telefone"))),
                        "telefone para contrato")
                \o miss(~Truthy(PyOr(contract("data_nascimento"), lead("data_nascimento"))),
                        "data de nascimento")
                \o miss(~Truthy(contract("metodo_assinatura")), "método de assinatura")
                \o miss(~IsTrue(contract("contrato_assinado")), "confirmação de assinatura")
          [] stage = "coleta_documentos_pessoais" ->
                miss(~Truthy(documents("rg_frente")), "foto frente RG/CNH")
                \o miss(~Truthy(documents("rg_verso")), "foto verso RG/CNH")
                \o miss(~Truthy(documents("comprovante_residencia")), "comprovante de residência")
          [] stage = "definicao_empresa" ->
                miss(~Truthy(company("nome_fantasia")), "nome fantasia")
                \o miss(~Truthy(company("razao_social")), "razão social")
                \o miss(company("capital_social").t = "none", "capital social")
                \o miss(Truthy(PyOr(business("numero_socios"), PyInt(0)))
                        /\ ~Truthy(company("participacoes_definidas")),
                        "divisão das participações")
          [] stage = "escolha_cnae" ->
                miss(~Truthy(company("cnae_principal")), "CNAE principal")
                \o miss(~IsTrue(company("cnaes_confirmados")), "confirmação de CNAEs")
          [] stage = "endereco_comercial" ->
                IF ~Truthy(company("endereco_tipo"))
                THEN <<"escolha do tipo de endereço">>
                ELSE IF PyEq(company("endereco_tipo"), PyStr("virtual"))
                THEN miss(~Truthy(company("cidade_escritorio_virtual")),
                          "cidade do escritório virtual")
                     \o miss(~IsTrue(company("aceite_escritorio_virtual")),
                             "aceite do escritório virtual")
                ELSE miss(~Truthy(company("cep")), "CEP")
                     \o miss(~Truthy(company("numero")), "número do endereço")
                     \o miss(~IsTrue(company("endereco_confirmado")), "confirmação do endereço")
          [] stage = "revisao_final" ->
                miss(~IsTrue(Get(context, "review_status", "confirmado")), "confirmação final")
          [] stage = "processamento" ->
                miss(~IsTrue(Get(context, "process_status", "finalizado")),
                     "finalização do processamento")
          [] OTHER -> <<>>

\* PRIMARY_STAGE_SEQUENCE.index(stage) + 1; 0 stands for ValueError
StageIndex(stage) ==
    IF \E i \in 1..Len(PRIMARY_STAGE_SEQUENCE) : PRIMARY_STAGE_SEQUENCE[i] = stage
    THEN CHOOSE i \in 1..Len(PRIMARY_STAGE_SEQUENCE) : PRIMARY_STAGE_SEQUENCE[i] = stage
    ELSE 0

\* the loop of _determine_primary_stage from position i of the sequence
RECURSIVE WalkStages(_, _)
WalkStages(context, i) ==
    LET finalizado == Truthy(Get(context, "process_status", "finalizado"))
    IN  IF i > Len(PRIMARY_STAGE_SEQUENCE)
        THEN (IF finalizado THEN "concluido" ELSE "processamento")
        ELSE IF PRIMARY_STAGE_SEQUENCE[i] = "concluido"
        THEN (IF finalizado THEN "concluido" ELSE WalkStages(context, i + 1))
        ELSE IF _get_missing_fields(PRIMARY_STAGE_SEQUENCE[i], context) # <<>>
        THEN PRIMARY_STAGE_SEQUENCE[i]
        ELSE WalkStages(context, i + 1)

\* variant that recomputes the stage of a paused or abandoned context
_determine_primary_stage_leaving(context) ==
    IF context.stage = "concluido" THEN context.stage
    ELSE IF PyEq(Get(context, "process_status", "status"), PyStr("abandonado")) THEN "abandonado"
    ELSE WalkStages(context, 1)

\* variant without the rule on process_status.status
_determine_primary_stage_walk_only(context) ==
    IF context.stage \in {"pausado", "abandonado", "concluido"} THEN context.stage
    ELSE WalkStages(context, 1)

\* variant whose walk starts at the second stage of the sequence
_determine_primary_stage_from_second(context) ==
    IF context.stage \in {"pausado", "abandonado", "concluido"} THEN context.stage
    ELSE IF PyEq(Get(context, "process_status", "status"), PyStr("abandonado")) THEN "abandonado"
    ELSE WalkStages(context, 2)

\* variant that takes a context waiting for the processing to end as completed
_determine_primary_stage_hasty(context) ==
    IF context.stage \in {"pausado", "abandonado", "concluido"} THEN context.stage
    ELSE IF PyEq(Get(context, "process_status", "status"), PyStr("abandonado")) THEN "abandonado"
    ELSE IF WalkStages(context, 1) = "processamento" THEN "concluido"
    ELSE WalkStages(context, 1)

_determine_primary_stage(context) ==
    IF context.stage \in {"pausado", "abandonado", "concluido"} THEN context.stage
    ELSE IF PyEq(Get(context, "process_status", "status"), PyStr("abandonado")) THEN "abandonado"
    ELSE WalkStages(context, 1)

\* variant that accepts a pausado or abandonado suggestion only while the stage
\* computed is one of the sequence before concluido
_apply_stage_transition_open_only(context, suggested_stage) ==
    IF suggested_stage \in {"pausado", "abandonado"}
       /\ _determine_primary_stage(context) \notin {"pausado", "abandonado", "concluido"}
    THEN suggested_stage
    ELSE IF suggested_stage # NoStage /\ StageIndex(suggested_stage) # 0
            /\ StageIndex(_determine_primary_stage(context)) # 0
            /\ StageIndex(suggested_stage) >= StageIndex(_determine_primary_stage(context))
    THEN suggested_stage
    ELSE _determine_primary_stage(context)

\* variant that leaves the stage where the router put it when the reply suggests
\* no stage or repeats the stage of the turn
_apply_stage_transition_stalling(context, suggested_stage) ==
    IF suggested_stage \in {"pausado", "abandonado"} THEN suggested_stage
    ELSE IF suggested_stage \in {NoStage, context.stage} THEN context.stage
    ELSE IF StageIndex(suggested_stage) # 0
            /\ StageIndex(_determine_primary_stage(context)) # 0
            /\ StageIndex(suggested_stage) >= StageIndex(_determine_primary_stage(context))
    THEN suggested_stage
    ELSE _determine_primary_stage(context)

\* variant that takes no suggestion of a stage of the sequence
_apply_stage_transition_computed(context, suggested_stage) ==
    IF suggested_stage \in {"pausado", "abandonado"} THEN suggested_stage
    ELSE _determine_primary_stage(context)

\* variant that accepts every primary suggestion, whatever its position
_apply_stage_transition_any(context, suggested_stage) ==
    LET computed_stage == _determine_primary_stage(context)
    IN  IF suggested_stage \in {"pausado", "abandonado"} THEN suggested_stage
        ELSE IF suggested_stage # NoStage /\ StageIndex(suggested_stage) # 0
                /\ StageIndex(computed_stage) # 0
        THEN suggested_stage
        ELSE computed_stage

\* the stage _apply_stage_transition assigns to context.stage
_apply_stage_transition(context, suggested_stage) ==
    LET computed_stage == _determine_primary_stage(context)
    IN  IF suggested_stage \in {"pausado", "abandonado"} THEN suggested_stage
        ELSE IF suggested_stage # NoStage /\ StageIndex(suggested_stage) # 0
                /\ StageIndex(computed_stage) # 0
                /\ StageIndex(suggested_stage) >= StageIndex(computed_stage)
        THEN suggested_stage
        ELSE computed_stage

_detect_completion_request(text) ==
    \E keyword \in {"stop", "pausar", "pausa", "depois", "mais tarde", "não agora",
                    "nao agora", "volto", "encerrar", "finalizar"} :
        Contains(text, keyword)

\* the stage _route_conversation_state leaves in context.stage (and routes to)
_route_conversation_state(context, user_input) ==
    IF _detect_completion_request(Lower(user_input))
       /\ context.stage \notin {"processamento", "concluido"}
    THEN "pausado"
    ELSE _determine_primary_stage(context)

-----------------------------------------------------------------------------
(* Merge of extracted fields *)

QUALIFICATION_THRESHOLD == 5000

\* variant that qualifies only an income above the threshold
check_qualification_above(context) ==
    IF Get(context, "lead_data", "renda_mensal").t = "none"
    THEN [context |-> context, raised |-> FALSE]
    ELSE IF ~IsNumeric(Get(context, "lead_data", "renda_mensal"))
    THEN [context |-> context, raised |-> TRUE]
    ELSE [context |-> [context EXCEPT !.is_qualified =
                           Centi(Get(context, "lead_data", "renda_mensal"))
                               > 100 * QUALIFICATION_THRESHOLD],
          raised |-> FALSE]

\* ConversationContext.check_qualification; raised stands for the TypeError of
\* comparing a non-numeric renda_mensal with 5000
check_qualification(context) ==
    LET renda == Get(context, "lead_data", "renda_mensal")
    IN  IF renda.t = "none" THEN [context |-> context, raised |-> FALSE]
        ELSE IF ~IsNumeric(renda) THEN [context |-> context, raised |-> TRUE]
        ELSE [context |-> [context EXCEPT !.is_qualified =
                               Centi(renda) >= 100 * QUALIFICATION_THRESHOLD],
              raised |-> FALSE]

\* one pass of the copy rule: target taken from source when source is set and target is not
CopyIfMissing(context, fromSection, toSection, attribute) ==
    IF Truthy(Get(context, fromSection, attribute)) /\ ~Truthy(Get(context, toSection, attribute))
    THEN Put(context, toSection, attribute, Get(context, fromSection, attribute))
    ELSE context

ContractAttributes == <<"nome_completo", "cpf", "email", "telefone", "data_nascimento">>

RECURSIVE CopyAll(_, _, _, _)
CopyAll(context, fromSection, toSection, i) ==
    IF i > Len(ContractAttributes) THEN context
    ELSE CopyAll(CopyIfMissing(context, fromSection, toSection, ContractAttributes[i]),
                 fromSection, toSection, i + 1)

_sync_contract_data(context) ==
    CopyAll(CopyAll(context, "contract_data", "lead_data", 1), "lead_data", "contract_data", 1)

AnyIn(tokens, text) == \E token \in tokens : Contains(text, token)

_infer_tipo_interesse(user_text) ==
    LET cleaned == NormalizeAlnum(PyStr(user_text))
    IN  IF AnyIn({"1", "primeira"}, cleaned) THEN PyStr("primeira_empresa")
        ELSE IF AnyIn({"2", "nova", "outra", "outras"}, cleaned) THEN PyStr("nova_empresa")
        ELSE IF AnyIn({"3", "conhecendo", "curios", "avaliando"}, cleaned) THEN PyStr("conhecendo")
        ELSE PyNone

_infer_estrutura_societaria(user_text) ==
    LET cleaned == NormalizeLetters(PyStr(user_text))
    IN  IF AnyIn({"sozinho", "mei", "individual"}, cleaned) THEN PyStr("mei")
        ELSE IF AnyIn({"socio", "sócio", "socios"}, cleaned) THEN PyStr("socios")
        ELSE IF AnyIn({"nao sei", "não sei", "duvida"}, cleaned) THEN PyStr("indefinido")
        ELSE PyNone

_infer_tipo_negocio(user_text) ==
    LET cleaned == NormalizeLetters(PyStr(user_text))
    IN  IF AnyIn({"abrir empresa", "primeira empresa", "nova empresa", "meu negocio",
                  "minha empresa", "empreender", "negocio proprio", "trabalhar por conta"},
                 cleaned)
        THEN (IF AnyIn({"vender", "produto", "loja", "comercio"}, cleaned) THEN PyStr("comercio")
              ELSE IF AnyIn({"fabrica", "producao", "industria", "manufatura"}, cleaned)
              THEN PyStr("industria")
              ELSE PyStr("servicos"))
        ELSE PyNone

\* content of the most recent user message, lowercased; "" when there is none
RECURSIVE LatestUserMessage(_, _)
LatestUserMessage(messages, i) ==
    IF i = 0 THEN ""
    ELSE IF messages[i].role = "user" THEN Lower(messages[i].content)
    ELSE LatestUserMessage(messages, i - 1)

_apply_fallback_inferences(context) ==
    LET Infer(c, latest, section, attribute, tracked, inferred) ==
            IF ~Truthy(Get(c, section, attribute)) /\ latest # "" /\ Truthy(inferred)
            THEN _track_field_collection(Put(c, section, attribute, inferred), tracked)
            ELSE c
        Apply(latest) ==
            Infer(Infer(Infer(context, latest, "lead_data", "tipo_interesse",
                              "tipo_interesse", _infer_tipo_interesse(latest)),
                        latest, "business_profile", "estrutura_societaria",
                        "business_profile.estrutura_societaria",
                        _infer_estrutura_societaria(latest)),
                  latest, "business_profile", "tipo_negocio",
                  "business_profile.tipo_negocio", _infer_tipo_negocio(latest))
    IN  Apply(LatestUserMessage(context.messages_exchanged, Len(context.messages_exchanged)))

\* parsed_value of the loop body: the coerced value, or the raw value when the
\* coercion gave None for a value that is neither None nor ""
ParsedValue(coerced, value) ==
    IF coerced.t = "none" /\ ~IsNoneOrEmpty(value) THEN value ELSE coerced

\* variant of the write without the comparison with the current value and without
\* the membership test of _track_field_collection
WriteField_unguarded(context, section, attribute, parsed_value) ==
    IF section = "lead_data"
    THEN (IF Truthy(parsed_value)
          THEN [Put(context, section, attribute, parsed_value)
                    EXCEPT !.fields_collected = Append(@, attribute)]
          ELSE context)
    ELSE (IF ~IsNoneOrEmpty(parsed_value)
          THEN [Put(context, section, attribute, parsed_value)
                    EXCEPT !.fields_collected = Append(@, section \o "." \o attribute)]
          ELSE context)

\* the guarded write of the loop body
WriteField(context, section, attribute, parsed_value) ==
    IF section = "lead_data"
    THEN (IF Truthy(parsed_value)
             /\ ~PyEqual(Get(context, section, attribute), parsed_value)
          THEN _track_field_collection(
                   Put(context, section, attribute, parsed_value), attribute)
          ELSE context)
    ELSE (IF ~IsNoneOrEmpty(parsed_value)
             /\ ~PyEqual(Get(context, section, attribute), parsed_value)
          THEN _track_field_collection(
                   Put(context, section, attribute, parsed_value),
                   section \o "." \o attribute)
          ELSE context)

\* body of the loop of _update_context_with_extracted_data for one (field, value)
MergeField(context, field, value) ==
    IF field \notin DOMAIN FIELD_SECTION_MAP THEN context
    ELSE WriteField(context, FIELD_SECTION_MAP[field][1], FIELD_SECTION_MAP[field][2],
                    ParsedValue(_coerce_value(FIELD_SECTION_MAP[field][2], value), value))

RECURSIVE MergeEntries(_, _, _)
MergeEntries(context, entries, i) ==
    IF i > Len(entries) THEN context
    ELSE MergeEntries(MergeField(context, entries[i].k, entries[i].v), entries, i + 1)

\* [context, raised]: raised stands for the AttributeError of extracted.items() on a
\* value that is not a mapping, or for the TypeError of check_qualification
_update_context_with_extracted_data(context, extracted) ==
    LET Finish(qualified) ==
            IF qualified.raised THEN qualified
            ELSE [context |-> _apply_fallback_inferences(_sync_contract_data(qualified.context)),
                  raised |-> FALSE]
    IN  IF ~Truthy(extracted) THEN [context |-> context, raised |-> FALSE]
        ELSE IF extracted.t # "dict" THEN [context |-> context, raised |-> TRUE]
        ELSE Finish(check_qualification(MergeEntries(context, extracted.v, 1)))

-----------------------------------------------------------------------------
(* Session state, persistence and hydration *)

HISTORY_LIMIT == 50

_trim_history(messages, limit) ==
    IF Len(messages) > limit
    THEN SubSeq(messages, Len(messages) - limit + 1, Len(messages))
    ELSE messages

\* _context = None, and the three shapes of workflow_session_state / session_data:
\* None, a dict without "context", a dict holding the serialized context
NoContext == [kind |-> "none"]
StateNone == [kind |-> "none"]
StateEmpty == [kind |-> "empty"]
StateWith(serialized) == [kind |-> "dict", context |-> serialized]
NoRecord == [kind |-> "none"]

\* context.model_dump() with datetimes as ISO strings: the fields kept by the model
\* are plain data already (the stage is the enum's string value)
_serialize_context(context) ==
    [stage |-> context.stage,
     data |-> context.data,
     conversation_turns |-> context.conversation_turns,
     messages_exchanged |-> context.messages_exchanged,
     is_qualified |-> context.is_qualified,
     fields_collected |-> context.fields_collected]

\* validation of LeadData(**lead_data) inside ConversationContext(**context_data):
\* string fields take only strings, nome_completo has 2..100 characters, telefone
\* has 10 or 11 digits, renda_mensal is a number >= 0
LeadDataValid(data) ==
    LET lead(a) == IF <<"lead_data", a>> \in DOMAIN data THEN data[<<"lead_data", a>>] ELSE PyNone
    IN  /\ \A a \in {"email", "tipo_interesse", "cpf", "data_nascimento"} :
              lead(a).t \in {"none", "str"}
        /\ \/ lead("nome_completo").t = "none"
           \/ /\ lead("nome_completo").t = "str"
              /\ Len(lead("nome_completo").v) >= 2
              /\ Len(lead("nome_completo").v) <= 100
        /\ \/ lead("telefone").t = "none"
           \/ /\ lead("telefone").t = "str"
              /\ Len(KeepChars(lead("telefone").v, Digits)) \in {10, 11}
        /\ \/ lead("renda_mensal").t = "none"
           \/ IsNumeric(lead("renda_mensal")) /\ Centi(lead("renda_mensal")) >= 0

\* variant that takes the stored data as they are, without the validation of the models
ConversationContextFrom_unvalidated(context_data) ==
    [ok |-> TRUE,
     context |-> [stage |-> context_data.stage, data |-> context_data.data,
                  conversation_turns |-> context_data.conversation_turns,
                  messages_exchanged |-> context_data.messages_exchanged,
                  is_qualified |-> context_data.is_qualified,
                  fields_collected |-> context_data.fields_collected]]

\* ConversationContext(**context_data): [ok |-> FALSE] stands for the validation error
ConversationContextFrom(context_data) ==
    IF ~LeadDataValid(context_data.data) \/ context_data.stage \notin ConversationStage
    THEN [ok |-> FALSE, context |-> NewContext]
    ELSE [ok |-> TRUE,
          context |->
            [stage |-> context_data.stage,
             data |-> [k \in DOMAIN context_data.data |->
                          IF k = <<"lead_data", "renda_mensal">>
                          THEN PyFloat(Centi(context_data.data[k]))
                          ELSE context_data.data[k]],
             conversation_turns |-> context_data.conversation_turns,
             messages_exchanged |-> context_data.messages_exchanged,
             is_qualified |-> context_data.is_qualified,
             fields_collected |-> context_data.fields_collected]]

\* A workflow instance is [session_id, _context, workflow_session_state]; the
\* operators below take the instance w and the store st and return the instance,
\* or [w, store] when they write the store.

_store_context_in_state(w) ==
    LET c == IF w._context = NoContext THEN NewContext ELSE w._context
    IN  [w EXCEPT !._context = c,
                  !.workflow_session_state = StateWith(_serialize_context(c))]

\* variant that finds no record, whatever the store holds
_load_session_state_from_db_absent(w, st) ==
    IF w.workflow_session_state = StateNone
    THEN [w EXCEPT !.workflow_session_state = StateEmpty]
    ELSE w

\* storage.read(session_id) inside try/except: a raised read leaves the state as an
\* absent record does
_load_session_state_from_db(w, st) ==
    IF storage # "read_raises" /\ st[w.session_id].kind = "dict"
    THEN [w EXCEPT !.workflow_session_state = st[w.session_id]]
    ELSE IF w.workflow_session_state = StateNone
    THEN [w EXCEPT !.workflow_session_state = StateEmpty]
    ELSE w

_hydrate_context_from_storage(w, st) ==
    LET loaded == IF w.workflow_session_state.kind = "dict" THEN w
                  ELSE _load_session_state_from_db(w, st)
        built == IF loaded.workflow_session_state.kind = "dict"
                 THEN ConversationContextFrom(loaded.workflow_session_state.context).context
                 ELSE NewContext
    IN  _store_context_in_state([loaded EXCEPT !._context = built])

\* the session_state property (getter)
session_state(w, st) ==
    LET w1 == IF w.workflow_session_state = StateNone
              THEN [w EXCEPT !.workflow_session_state = StateEmpty]
              ELSE w
    IN  IF w1.workflow_session_state.kind # "dict"
        THEN _hydrate_context_from_storage(w1, st)
        ELSE w1

_ensure_context(w, st) ==
    IF w._context = NoContext THEN _hydrate_context_from_storage(w, st) ELSE w

\* variant in which a raised upsert also discards the context the instance holds
_save_session_state_to_db_discarding(w, st) ==
    IF session_state(w, st).workflow_session_state.kind # "dict"
    THEN [w |-> session_state(w, st), store |-> st]
    ELSE IF storage = "upsert_raises"
    THEN [w |-> _store_context_in_state(
                    [session_state(w, st) EXCEPT !._context = NewContext,
                                                 !.workflow_session_state = StateEmpty]),
          store |-> st]
    ELSE [w |-> session_state(w, st),
          store |-> [st EXCEPT ![w.session_id] = session_state(w, st).workflow_session_state]]

\* variant whose upsert is not keyed by the session id: every record is overwritten
_save_session_state_to_db_unkeyed(w, st) ==
    IF session_state(w, st).workflow_session_state.kind # "dict" \/ storage = "upsert_raises"
    THEN [w |-> session_state(w, st), store |-> st]
    ELSE [w |-> session_state(w, st),
          store |-> [s \in DOMAIN st |-> session_state(w, st).workflow_session_state]]

\* storage.upsert(workflow_session) inside try/except: a raised upsert is logged and
\* leaves the record as it was
_save_session_state_to_db(w, st) ==
    LET w1 == session_state(w, st)
    IN  IF w1.workflow_session_state.kind # "dict" \/ storage = "upsert_raises"
        THEN [w |-> w1, store |-> st]
        ELSE [w |-> w1, store |-> [st EXCEPT ![w1.session_id] = w1.workflow_session_state]]

\* self._context = context; self.session_state["context"] = serialized (the right-hand
\* side is evaluated before the property is read); _store_context_in_state(); save
_persist_context(w, st, context) ==
    LET w1 == [w EXCEPT !._context = context]
        serialized == _serialize_context(context)
        w2 == session_state(w1, st)
        w3 == [w2 EXCEPT !.workflow_session_state = StateWith(serialized)]
        w4 == _store_context_in_state(w3)
    IN  _save_session_state_to_db(w4, st)

\* session_state.clear(); _context = ConversationContext(); _persist_context(_context)
reset(w, st) ==
    LET w1 == session_state(w, st)
        w2 == [w1 EXCEPT !.workflow_session_state = StateEmpty, !._context = NewContext]
    IN  _persist_context(w2, st, NewContext)

-----------------------------------------------------------------------------
(* One turn: run() with the router, the stage agent and the postprocess step *)

APOLOGY == "Desculpe, enfrentei uma instabilidade. Pode repetir ou tentar novamente em instantes?"
FALLBACK == "Desculpe, tivemos um imprevisto técnico. Nossa equipe já está cuidando disso. Pode tentar novamente em instantes?"

\* outcome of agent.run that stands for a raised exception
AGENT_FAILURE == "<agent.run raised>"

\* the texts users send in the turns of the model
UserInputs == {"oi", "volto depois"}

\* the replies the stage agent returns in the turns of the model
AgentReplies ==
    {"Ola! Como posso te chamar?\n",
     "Otimo, Ana!\n---DATA---\n{\"extracted\": {\"nome\": \"Ana\", \"tipo_negocio\": \"servicos\", \"estrutura_societaria\": \"mei\", \"faturamento_mei_ok\": true, \"confirmacao_inicial\": true}, \"next_stage\": \"proposta\"}",
     "Combinado.\n---DATA---\n~~~json\n{\"extracted\": {\"aceite_proposta\": true}, \"next_stage\": \"contratacao\"}\n~~~",
     "Sem problemas.\n---DATA---\n{\"extracted\": {\"aceite_proposta\": false, \"confirmacao_inicial\": false}}",
     "Anotado.\n---DATA---\n{\"extracted\": {\"telefone\": \"123\"}}",
     "Ok\n---DATA---\n{\"extracted\": [\"nome\"]}",
     "Tudo certo!\n---DATA---\n{\"extracted\": {}, \"next_stage\": \"concluido\"}",
     "Vamos voltar.\n---DATA---\n{\"extracted\": {}, \"next_stage\": \"inicial\"}",
     "Certo.\n---DATA---\n{\"extracted\": {\"nome\": \"Ana\", \"renda_mensal\": \"R$ 81 mil\"}}",
     "Ate logo.\n---DATA---\n{\"extracted\": {}, \"next_stage\": \"abandonado\"}",
     "Prazer, Ana.\n---DATA---\n{\"extracted\": {\"nome\": \"Ana\"}}",
     "\n---DATA---\n{\"extracted\": {\"nome\": \"Ana\"}}"}

\* variant without the except clause of the executor
_stage_executor_reraise(raw) == raw

\* content produced by the stage executor
_stage_executor(raw) == IF raw = AGENT_FAILURE THEN APOLOGY ELSE raw

Message(role, content) == [role |-> role, content |-> content]

\* _record_user_message
_record_user_message(w, st, user_input) ==
    IF user_input = "" THEN [w |-> w, store |-> st]
    ELSE LET context == [w._context EXCEPT !.messages_exchanged =
                            _trim_history(Append(@, Message("user", user_input)), HISTORY_LIMIT)]
         IN  _persist_context(w, st, context)

\* what _postprocess_agent_output leaves behind: [w, store, raised, content] plus the
\* intermediate values the properties refer to
Outcome(persisted, raised, content, parsed, canonical) ==
    [w |-> persisted.w, store |-> persisted.store, raised |-> raised,
     content |-> content, parsed |-> parsed, canonical |-> canonical]

\* the steps of _postprocess_agent_output after the merge.  When the merge raised, the
\* step stops there: the assistant message and the fields written so far stay in the
\* context object, the transition, the turn increment and the persist do not happen.
Transition(w, st, raw_response, parsed, merge) ==
    IF merge.raised
    THEN Outcome([w |-> [w EXCEPT !._context = merge.context], store |-> st],
                 TRUE, "", parsed, _determine_primary_stage(merge.context))
    ELSE Outcome(_persist_context(w, st,
                     [merge.context EXCEPT
                         !.stage = _apply_stage_transition(merge.context, parsed.suggested),
                         !.conversation_turns = @ + 1,
                         !.messages_exchanged = _trim_history(@, HISTORY_LIMIT)]),
                 FALSE,
                 IF parsed.message # "" THEN parsed.message ELSE raw_response,
                 parsed, _determine_primary_stage(merge.context))

\* the assistant message is appended, then the extracted data is merged
Merge(w, st, raw_response, parsed) ==
    Transition(w, st, raw_response, parsed,
               _update_context_with_extracted_data(
                   IF parsed.message # ""
                   THEN [w._context EXCEPT !.messages_exchanged =
                            Append(@, Message("assistant", parsed.message))]
                   ELSE w._context,
                   parsed.extracted))

\* _postprocess_agent_output on the instance's context
_postprocess_agent_output(w, st, raw_response) ==
    Merge(w, st, raw_response, _parse_agent_response(raw_response))

\* finally: self._save_session_state(), and what run() leaves behind: [w, store,
\* reply, ...].  yielded is the record of the session in the store at the yield of the
\* reply, which comes before the finally clause.  reply is the content of the RunResponse yielded to the caller; an
\* exception of a step reaches the except clause of run(), which yields FALLBACK.
Finally(post, computed_stage, routed_stage) ==
    [w |-> _persist_context(post.w, post.store, post.w._context).w,
     store |-> _persist_context(post.w, post.store, post.w._context).store,
     reply |-> IF post.raised THEN FALLBACK ELSE post.content,
     raised |-> post.raised,
     start_stage |-> computed_stage,
     routed_stage |-> routed_stage,
     suggested |-> post.parsed.suggested,
     extracted |-> post.parsed.extracted,
     canonical |-> post.canonical,
     yielded |-> post.store[post.w.session_id]]

\* context.stage = routed_stage; _store_context_in_state(); the stage executor; the
\* postprocess step
Steps(recorded, raw, computed_stage, routed_stage) ==
    Finally(_postprocess_agent_output(
                _store_context_in_state([recorded.w EXCEPT !._context.stage = routed_stage]),
                recorded.store, _stage_executor(raw)),
            computed_stage, routed_stage)

\* the stage is set to the canonical one when it differs, the user message is recorded,
\* the router picks the stage of the turn
Record(w0, st, user_input, computed_stage) ==
    _record_user_message(
        IF w0._context.stage # computed_stage
        THEN _store_context_in_state([w0 EXCEPT !._context.stage = computed_stage])
        ELSE w0,
        st, user_input)

Route(recorded, user_input, raw, computed_stage) ==
    Steps(recorded, raw, computed_stage,
          _route_conversation_state(recorded.w._context, user_input))

\* run(user_input) with the agent outcome raw
run(w, st, user_input, raw) ==
    Route(Record(_ensure_context(w, st), st, user_input,
                 _determine_primary_stage(_ensure_context(w, st)._context)),
          user_input, raw, _determine_primary_stage(_ensure_context(w, st)._context))

-----------------------------------------------------------------------------
(* The session specification: one workflow object per slot, one session store *)

MaxRuns == 2

SessionIds == {"s1"}
Instances == {"w1"}

NewWorkflow(session_id) ==
    [session_id |-> session_id, _context |-> NoContext, workflow_session_state |-> StateNone]

\* the context a newly created instance for the session obtains (_get_context)
FreshContext(session_id) == _ensure_context(NewWorkflow(session_id), store)._context

NoTurn ==
    [op |-> "init", instance |-> "w1", user_input |-> "", raw |-> "", reply |-> "",
     raised |-> FALSE,
     suggested |-> NoStage, canonical |-> NoStage, start |-> NewContext,
     had_record |-> FALSE, fresh |-> FALSE, yielded |-> NoRecord]

Init ==
    /\ store = [s \in SessionIds |-> NoRecord]
    /\ inst = [i \in Instances |-> NewWorkflow("s1")]
    /\ runs = 0
    /\ last = NoTurn
    /\ probe = [phase |-> "none"]
    /\ storage = "ok"
    /\ pc = <<>>

\* LeadConversionWorkflow(session_id=...): a new object takes the slot
Construct(i, s) ==
    /\ inst' = [inst EXCEPT ![i] = NewWorkflow(s)]
    /\ last' = [NoTurn EXCEPT !.op = "construct", !.instance = i,
                              !.had_record = store[s].kind = "dict"]
    /\ UNCHANGED <<store, runs, probe, storage, pc>>

\* _get_context(): a status read; hydrates an instance that has no context yet
GetContext(i) ==
    /\ inst' = [inst EXCEPT ![i] = _ensure_context(inst[i], store)]
    /\ last' = [NoTurn EXCEPT !.op = "get", !.instance = i,
                              !.fresh = inst[i]._context = NoContext,
                              !.had_record = store[inst[i].session_id].kind = "dict"]
    /\ UNCHANGED <<store, runs, probe, storage, pc>>

\* the state a turn leaves behind
Turn(i, user_input, raw, turn) ==
    /\ inst' = [inst EXCEPT ![i] = turn.w]
    /\ store' = turn.store
    /\ last' = [op |-> "run", instance |-> i, user_input |-> user_input, raw |-> raw,
                reply |-> turn.reply, raised |-> turn.raised,
                suggested |-> turn.suggested, canonical |-> turn.canonical,
                start |-> _ensure_context(inst[i], store)._context,
                had_record |-> store[inst[i].session_id].kind = "dict",
                fresh |-> inst[i]._context = NoContext,
                yielded |-> turn.yielded]

\* run(user_input), the agent returning or raising as raw says
Run(i, user_input, raw) ==
    /\ runs < MaxRuns
    /\ Turn(i, user_input, raw, run(inst[i], store, user_input, raw))
    /\ runs' = runs + 1
    /\ UNCHANGED <<probe, storage, pc>>

\* reset()
Reset(i) ==
    /\ inst' = [inst EXCEPT ![i] = reset(inst[i], store).w]
    /\ store' = reset(inst[i], store).store
    /\ last' = [NoTurn EXCEPT !.op = "reset", !.instance = i,
                              !.fresh = inst[i]._context = NoContext,
                              !.had_record = store[inst[i].session_id].kind = "dict"]
    /\ UNCHANGED <<runs, probe, storage, pc>>

Next ==
    \/ \E i \in Instances, s \in SessionIds : Construct(i, s)
    \/ \E i \in Instances : GetContext(i)
    \/ \E i \in Instances, u \in UserInputs, r \in AgentReplies \cup {AGENT_FAILURE} :
          Run(i, u, r)
    \/ \E i \in Instances : Reset(i)

Spec == Init /\ [][Next]_vars

-----------------------------------------------------------------------------
(* Properties of the session specification *)

\* the context held by the session's record in the store (a new one when absent)
Persisted(session_id) ==
    IF store[session_id].kind = "dict" THEN store[session_id].context ELSE NewContext

\* index in PRIMARY_STAGE_SEQUENCE of the canonical stage of a context (0 for the
\* side states)
CanonicalIndex(context) == StageIndex(_determine_primary_stage(context))

\* the context of the instance the last operation acted on
Acted == inst[last.instance]._context

IsInitialStatus(context) ==
    /\ context.conversation_turns = 0
    /\ context.stage = "inicial"
    /\ context.messages_exchanged = <<>>
    /\ context.data = EmptyData
    /\ context.fields_collected = <<>>

C2_TransitionRejection ==
    (/\ last.op = "run"
     /\ ~last.raised
     /\ StageIndex(last.suggested) > 0
     /\ StageIndex(last.canonical) > 0
     /\ StageIndex(last.suggested) < StageIndex(last.canonical))
        => Acted.stage = last.canonical

\* a turn whose suggestion was behind a canonical stage reached from collected data
C2_Witness ==
    /\ last.op = "run"
    /\ ~last.raised
    /\ StageIndex(last.suggested) > 0
    /\ StageIndex(last.suggested) < StageIndex(last.canonical)
    /\ last.canonical \notin {"concluido", "inicial"}
    /\ Acted.stage = last.canonical

\* C3: after reset() on a session that had a persisted record, the status read from
\* the same instance and from a new instance is the initial one
C3_Reset ==
    (last.op = "reset" /\ last.had_record)
        => /\ IsInitialStatus(_ensure_context(inst[last.instance], store)._context)
           /\ IsInitialStatus(FreshContext("s1"))

\* C4: after a turn, a new instance for the session sees every section value the
\* turn left in its context
C4_SessionContinuity ==
    last.op = "run" => FreshContext("s1").data = Acted.data

\* C5: every turn that completes its postprocess step raises the persisted turn
\* count by exactly one
C5_TurnCount ==
    [][(last'.op = "run" /\ ~last'.raised)
          => Persisted("s1")'.conversation_turns = Persisted("s1").conversation_turns + 1]_vars

\* C6: a turn whose agent call raised replies with the apology, appends it as the
\* assistant message, changes no section value, sets the canonical stage, counts the
\* turn, persists the context and raises nothing
C6_GenerationFailure ==
    (last.op = "run" /\ last.raw = AGENT_FAILURE)
        => /\ last.reply = APOLOGY
           /\ ~last.raised
           /\ Acted.messages_exchanged # <<>>
           /\ Acted.messages_exchanged[Len(Acted.messages_exchanged)]
                  = Message("assistant", APOLOGY)
           /\ Acted.data = last.start.data
           /\ Acted.fields_collected = last.start.fields_collected
           /\ Acted.stage = last.canonical
           /\ Acted.conversation_turns = last.start.conversation_turns + 1
           /\ store["s1"] = StateWith(_serialize_context(Acted))

\* a failed agent call in a session that already has collected data
C6_Witness ==
    /\ last.op = "run"
    /\ last.raw = AGENT_FAILURE
    /\ last.start.conversation_turns > 0
    /\ last.start.data # EmptyData
    /\ last.reply = APOLOGY

\* C12: fields_collected of the session's context holds no name twice, and a turn
\* removes no name from it
C12_FieldsCollected ==
    [][last'.op = "run" =>
          /\ \A j, k \in 1..Len(Persisted("s1")'.fields_collected) :
                Persisted("s1")'.fields_collected[j] = Persisted("s1")'.fields_collected[k]
                    => j = k
          /\ \A j \in 1..Len(Persisted("s1").fields_collected) :
                \E k \in 1..Len(Persisted("s1")'.fields_collected) :
                    Persisted("s1")'.fields_collected[k] = Persisted("s1").fields_collected[j]]_vars

\* C14: a turn whose payload carries a renda_mensal that does not parse as a number,
\* next to a name, writes the name, leaves renda_mensal unwritten and completes: the
\* reply is returned, the stage is the canonical one, the turn is counted
C14_CoercionFailureIsolated ==
    (last.op = "run" /\ Contains(last.raw, "\"renda_mensal\": \"R$ 81 mil\"")) =>
        /\ ~last.raised
        /\ last.reply = "Certo."
        /\ Get(Acted, "lead_data", "nome_completo") = PyStr("Ana")
        /\ Get(Acted, "lead_data", "renda_mensal") = Get(last.start, "lead_data", "renda_mensal")
        /\ Acted.stage = last.canonical
        /\ Acted.conversation_turns = last.start.conversation_turns + 1

-----------------------------------------------------------------------------
(* The parser specification: _parse_agent_response applied to replies built *)
(* from their parts, and the merge applied to what it returned              *)

\* json.dumps of a value, the way the agent writes the structured part
RECURSIVE JsonText(_)
RECURSIVE JsonElements(_, _)
RECURSIVE JsonMembers(_, _)
JsonText(x) ==
    CASE x.t = "none" -> "null"
      [] x.t = "bool" -> IF x.v THEN "true" ELSE "false"
      [] x.t = "int" -> IntToStr(x.v)
      [] x.t = "float" -> FloatToStr(x.v)
      [] x.t = "str" -> "\"" \o x.v \o "\""
      [] x.t = "list" -> "[" \o JsonElements(x.v, 1) \o "]"
      [] OTHER -> "{" \o JsonMembers(x.v, 1) \o "}"

JsonElements(q, i) ==
    IF i > Len(q) THEN ""
    ELSE JsonText(q[i]) \o (IF i < Len(q) THEN ", " ELSE "") \o JsonElements(q, i + 1)

JsonMembers(q, i) ==
    IF i > Len(q) THEN ""
    ELSE "\"" \o q[i].k \o "\": " \o JsonText(q[i].v)
         \o (IF i < Len(q) THEN ", " ELSE "") \o JsonMembers(q, i + 1)

Entry(k, x) == [k |-> k, v |-> x]

\* the reply texts (part one) of the parser inputs
ReplyTexts == {"Hello", "  Ola, Ana! Qual o seu e-mail?  \n", "Certo.\n\nPodemos seguir?"}

\* well-formed structured payloads: a JSON object whose extracted, when present,
\* is an object
Payloads ==
    {PyDict(<<Entry("extracted", PyDict(<<Entry("nome", PyStr("Ana"))>>)),
              Entry("next_stage", PyStr("qualificacao"))>>),
     PyDict(<<Entry("extracted", PyDict(<<Entry("nome", PyStr("Ana")),
                                          Entry("renda_mensal", PyFloat(600050)),
                                          Entry("numero_socios", PyInt(2))>>))>>),
     PyDict(<<Entry("extracted", PyDict(<<>>)), Entry("next_stage", PyStr("concluido"))>>),
     PyDict(<<Entry("next_stage", PyStr("proposta"))>>),
     PyDict(<<Entry("extracted", PyDict(<<Entry("motivo_objecao", PyStr("nao quero ~~~ agora"))>>))>>),
     PyDict(<<Entry("extracted", PyDict(<<Entry("aceite_proposta", PyBool(TRUE)),
                                          Entry("participacoes", PyList(<<PyInt(60), PyInt(40)>>)),
                                          Entry("cnpj", PyNone)>>)),
              Entry("next_stage", PyStr("contratacao"))>>),
     PyDict(<<Entry("extracted", PyDict(<<Entry("email", PyStr("ana@ex.com"))>>)),
              Entry("stage", PyStr("pausado"))>>)}

\* '<text>\n---DATA---\n<JSON object>', the JSON optionally inside code-fence markers
TwoPart(text, payload, fenced) ==
    text \o "\n" \o DATA_MARKER \o "\n" \o
    (IF fenced THEN "~~~json\n" \o JsonText(payload) \o "\n~~~" ELSE JsonText(payload))

\* structured parts that are JSON but not of the agreed shape
OddShapes ==
    {"[1, 2]", "\"texto\"", "null", "7",
     "{\"extracted\": [\"nome\"]}",
     "{\"extracted\": \"nome\"}",
     "{\"extracted\": 5, \"next_stage\": \"proposta\"}",
     "{\"extracted\": {\"nome\": \"Ana\"}, \"next_stage\": \"desconhecido\"}",
     "{\"extracted\": {\"nome\": \"Ana\"}, \"next_stage\": 7}",
     "{\"extracted\": null, \"next_stage\": [\"proposta\"]}"}

NoParse == [message |-> "", extracted |-> EmptyDict, suggested |-> NoStage]
NoMerge == [context |-> NewContext, raised |-> FALSE]

ParseInput(kind, raw, text, payload) ==
    [phase |-> "input", kind |-> kind, raw |-> raw, text |-> text, payload |-> payload,
     parsed |-> NoParse, merged |-> NoMerge]

\* the "broken" inputs carry structured parts json.loads rejects
ParseInputs ==
    {ParseInput("wellformed", TwoPart(t, o, f), t, o) :
        t \in ReplyTexts, o \in Payloads, f \in BOOLEAN}
    \cup {ParseInput("plain", t, t, PyNone) : t \in ReplyTexts \cup {"", " \n"}}
    \cup {ParseInput("broken", t \o "\n" \o DATA_MARKER \o "\n" \o j, t, PyNone) :
            t \in ReplyTexts,
            j \in {"{oops", "{\"extracted\": {\"nome\": \"Ana\"", "nao ha dados", ""}}
    \cup {ParseInput("odd", "Ok\n" \o DATA_MARKER \o "\n" \o j, "Ok", PyNone) : j \in OddShapes}

InitParse ==
    /\ store = [s \in SessionIds |-> NoRecord]
    /\ inst = [i \in Instances |-> NewWorkflow("s1")]
    /\ runs = 0
    /\ last = NoTurn
    /\ probe \in ParseInputs
    /\ storage = "ok"
    /\ pc = <<>>

\* message, extracted, suggested_stage = self._parse_agent_response(raw_response)
Parse ==
    /\ probe.phase = "input"
    /\ probe' = [probe EXCEPT !.phase = "parsed",
                              !.parsed = _parse_agent_response(probe.raw)]
    /\ UNCHANGED <<store, inst, runs, last, storage, pc>>

\* self._update_context_with_extracted_data(context, extracted) on a new context
Consume ==
    /\ probe.phase = "parsed"
    /\ probe' = [probe EXCEPT !.phase = "merged",
                              !.merged = _update_context_with_extracted_data(
                                             NewContext, probe.parsed.extracted)]
    /\ UNCHANGED <<store, inst, runs, last, storage, pc>>

NextParse == Parse \/ Consume

SpecParse == InitParse /\ [][NextParse]_vars

\* C7 as stated: a reply without the marker comes back whole as the message, with an
\* empty extraction and no suggested stage; a reply whose structured part is not
\* JSON gives the same degraded outcome
C7_Original ==
    probe.phase # "input" =>
        /\ probe.kind = "plain" =>
               probe.parsed = [message |-> probe.raw, extracted |-> EmptyDict,
                               suggested |-> NoStage]
        /\ probe.kind = "broken" =>
               /\ probe.parsed.extracted = EmptyDict
               /\ probe.parsed.suggested = NoStage

\* C7 (amended): a reply without the marker comes back as the message with the
\* surrounding whitespace trimmed, an empty extraction and no suggested stage; a reply
\* whose structured part is not JSON gives the trimmed part one as the message, an
\* empty extraction and no suggested stage
C7_GracefulDegradation ==
    probe.phase # "input" =>
        /\ probe.kind = "plain" =>
               probe.parsed = [message |-> Strip(probe.raw), extracted |-> EmptyDict,
                               suggested |-> NoStage]
        /\ probe.kind = "broken" =>
               probe.parsed = [message |-> Strip(probe.text), extracted |-> EmptyDict,
                               suggested |-> NoStage]

\* a parsed reply with the marker, a structured part that is not JSON and a part one
\* that carries surrounding whitespace
C7_Witness ==
    /\ probe.phase = "parsed"
    /\ probe.kind = "broken"
    /\ Contains(probe.raw, "{oops")
    /\ Strip(probe.text) # probe.text
    /\ probe.parsed.message = Strip(probe.text)

\* C8: the parser returns an extraction that is a mapping and a suggested stage that
\* is a stage or absent, and the merge that consumes the extraction does not raise
C8_WellFormedTriple ==
    probe.phase # "input" =>
        /\ probe.parsed.extracted.t = "dict"
        /\ probe.parsed.suggested \in ConversationStage \cup {NoStage}
        /\ probe.phase = "merged" => ~probe.merged.raised

\* C9: a well-formed two-part reply parses into the trimmed part one, the extracted
\* mapping of its JSON object unchanged, and the stage named by next_stage
C9_RoundTrip ==
    (probe.phase # "input" /\ probe.kind = "wellformed") =>
        /\ probe.parsed.message = Strip(probe.text)
        /\ DictHas(probe.payload, "extracted") =>
               probe.parsed.extracted = DictGet(probe.payload, "extracted")
        /\ DictHas(probe.payload, "next_stage") =>
               probe.parsed.suggested = DictGet(probe.payload, "next_stage").v

-----------------------------------------------------------------------------
(* The merge specification: one (field, value) extraction applied twice *)

\* contexts the extraction is applied to: new, with a user message the fallback
\* inference reads, with data collected by an earlier turn, with a business profile,
\* and with every stage up to revisao_final completed
MergeStarts ==
    {NewContext,
     [NewContext EXCEPT !.messages_exchanged =
         <<Message("user", "quero abrir minha empresa sozinho")>>],
     _update_context_with_extracted_data(
         [NewContext EXCEPT !.messages_exchanged = <<Message("user", "oi")>>],
         PyDict(<<Entry("nome", PyStr("Ana")), Entry("telefone", PyStr("(11) 98888-7777")),
                  Entry("renda_mensal", PyInt(6000)), Entry("numero_socios", PyInt(2)),
                  Entry("aceite_proposta", PyBool(TRUE))>>)).context,
     _update_context_with_extracted_data(
         [NewContext EXCEPT !.messages_exchanged = <<Message("user", "oi")>>],
         PyDict(<<Entry("tipo_negocio", PyStr("servicos")),
                  Entry("estrutura_societaria", PyStr("socios")),
                  Entry("numero_socios", PyInt(2))>>)).context,
     [NewContext EXCEPT
         !.messages_exchanged = <<Message("user", "oi")>>,
         !.data =
              (<<"lead_data", "nome_completo">> :> PyStr("Ana") @@
               <<"lead_data", "email">> :> PyStr("ana@x.io") @@
               <<"lead_data", "telefone">> :> PyStr("(11) 98888-7777") @@
               <<"lead_data", "cpf">> :> PyStr("123.456.789-01") @@
               <<"lead_data", "data_nascimento">> :> PyStr("01/02/1990") @@
               <<"initial_confirmation", "confirmado">> :> PyBool(TRUE) @@
               <<"business_profile", "tipo_negocio">> :> PyStr("servicos") @@
               <<"business_profile", "estrutura_societaria">> :> PyStr("mei") @@
               <<"business_profile", "faturamento_mei_ok">> :> PyBool(TRUE) @@
               <<"proposal_status", "aceite_proposta">> :> PyBool(TRUE) @@
               <<"contract_data", "metodo_assinatura">> :> PyStr("sms") @@
               <<"contract_data", "contrato_assinado">> :> PyBool(TRUE) @@
               <<"contract_data", "nome_completo">> :> PyStr("Ana") @@
               <<"contract_data", "cpf">> :> PyStr("123.456.789-01") @@
               <<"contract_data", "email">> :> PyStr("ana@x.io") @@
               <<"contract_data", "telefone">> :> PyStr("(11) 98888-7777") @@
               <<"contract_data", "data_nascimento">> :> PyStr("01/02/1990") @@
               <<"document_status", "rg_frente">> :> PyStr("f.jpg") @@
               <<"document_status", "rg_verso">> :> PyStr("v.jpg") @@
               <<"document_status", "comprovante_residencia">> :> PyStr("c.pdf") @@
               <<"company_profile", "nome_fantasia">> :> PyStr("Ana ME") @@
               <<"company_profile", "razao_social">> :> PyStr("Ana ME") @@
               <<"company_profile", "capital_social">> :> PyFloat(100000) @@
               <<"company_profile", "cnae_principal">> :> PyStr("6201-5") @@
               <<"company_profile", "cnaes_confirmados">> :> PyBool(TRUE) @@
               <<"company_profile", "endereco_tipo">> :> PyStr("virtual") @@
               <<"company_profile", "cidade_escritorio_virtual">> :> PyStr("Salvador") @@
               <<"company_profile", "aceite_escritorio_virtual">> :> PyBool(TRUE) @@
               <<"review_status", "confirmado">> :> PyBool(TRUE)),
         !.fields_collected =
              <<"nome_completo", "initial_confirmation.confirmado",
                "business_profile.tipo_negocio", "business_profile.estrutura_societaria",
                "business_profile.faturamento_mei_ok", "proposal_status.aceite_proposta",
                "cpf", "email", "telefone", "data_nascimento",
                "contract_data.metodo_assinatura", "contract_data.contrato_assinado",
                "document_status.rg_frente", "document_status.rg_verso",
                "document_status.comprovante_residencia", "company_profile.nome_fantasia",
                "company_profile.razao_social", "company_profile.capital_social",
                "company_profile.cnae_principal", "company_profile.cnaes_confirmados",
                "company_profile.endereco_tipo",
                "company_profile.cidade_escritorio_virtual",
                "company_profile.aceite_escritorio_virtual", "review_status.confirmado">>]}

\* raw values an extraction carries; its key is a field of the registry or the
\* unregistered "apelido"
MergeValues ==
    {PyNone, PyStr(""), PyStr("Ana"), PyStr("sim"), PyStr("nao"), PyStr("mei"),
     PyStr("123"), PyStr("1.234,56"), PyStr("5.000,00"), PyStr("R$ 81 mil"),
     PyStr("abandonado"),
     PyStr("(11) 98888-7777"),
     PyStr("123.456.789-01"), PyBool(TRUE), PyBool(FALSE), PyInt(0), PyInt(3),
     PyFloat(600050), PyList(<<PyStr("60"), PyStr("40")>>)}

MergeInputs ==
    {[phase |-> "input", start |-> c, field |-> f, value |-> x,
      once |-> NoMerge, twice |-> NoMerge] :
        c \in MergeStarts, f \in DOMAIN FIELD_SECTION_MAP \cup {"apelido"},
        x \in MergeValues}

InitMerge ==
    /\ store = [s \in SessionIds |-> NoRecord]
    /\ inst = [i \in Instances |-> NewWorkflow("s1")]
    /\ runs = 0
    /\ last = NoTurn
    /\ probe \in MergeInputs
    /\ storage = "ok"
    /\ pc = <<>>

\* the first application of {field: value}
ApplyOnce ==
    /\ probe.phase = "input"
    /\ probe' = [probe EXCEPT !.phase = "once",
                              !.once = _update_context_with_extracted_data(
                                           probe.start,
                                           PyDict(<<Entry(probe.field, probe.value)>>))]
    /\ UNCHANGED <<store, inst, runs, last, storage, pc>>

\* the same extraction applied to the context the first application left
ApplyTwice ==
    /\ probe.phase = "once"
    /\ probe' = [probe EXCEPT !.phase = "twice",
                              !.twice = _update_context_with_extracted_data(
                                            probe.once.context,
                                            PyDict(<<Entry(probe.field, probe.value)>>))]
    /\ UNCHANGED <<store, inst, runs, last, storage, pc>>

NextMerge == ApplyOnce \/ ApplyTwice

SpecMerge == InitMerge /\ [][NextMerge]_vars

\* C10: a second application of the same (field, value) extraction leaves every
\* stored section value and the fields_collected list as the first application left them
C10_IdempotentMerge ==
    probe.phase = "twice" =>
        /\ probe.twice.context.data = probe.once.context.data
        /\ probe.twice.context.fields_collected = probe.once.context.fields_collected

\* a first application that stored the value and recorded the field, followed by
\* the second application
C10_Witness ==
    /\ probe.phase = "twice"
    /\ probe.once.context.data # probe.start.data
    /\ Len(probe.once.context.fields_collected) > Len(probe.start.fields_collected)
    /\ ~probe.once.raised

\* C13: an extracted cpf or cpf_contrato whose digits number 11 is stored as
\* NNN.NNN.NNN-NN; any other value leaves the stored cpf as it was
C13_CpfRule ==
    (probe.phase # "input" /\ probe.field \in {"cpf", "cpf_contrato"}) =>
        /\ ~probe.once.raised
        /\ IF Len(KeepChars(PyStrOf(probe.value), Digits)) = 11
           THEN Get(probe.once.context, FIELD_SECTION_MAP[probe.field][1], "cpf")
                    = PyStr(SubSeq(KeepChars(PyStrOf(probe.value), Digits), 1, 3) \o "."
                            \o SubSeq(KeepChars(PyStrOf(probe.value), Digits), 4, 6) \o "."
                            \o SubSeq(KeepChars(PyStrOf(probe.value), Digits), 7, 9) \o "-"
                            \o SubSeq(KeepChars(PyStrOf(probe.value), Digits), 10, 11))
           ELSE Get(probe.once.context, FIELD_SECTION_MAP[probe.field][1], "cpf")
                    = Get(probe.start, FIELD_SECTION_MAP[probe.field][1], "cpf")

\* C15: for a field of BOOL_KEYS, a boolean is stored as it is, a non-zero number as
\* true, an affirmative token as true, a negative token as false; any other value
\* leaves the attribute as it was
C15_BooleanCoercion ==
    (probe.phase # "input" /\ probe.field \in BOOL_KEYS) =>
        /\ ~probe.once.raised
        /\ Get(probe.once.context, FIELD_SECTION_MAP[probe.field][1],
               FIELD_SECTION_MAP[probe.field][2])
             = CASE probe.value.t = "bool" -> probe.value
                 [] probe.value.t \in {"int", "float"} /\ probe.value.v # 0 -> PyBool(TRUE)
                 [] probe.value.t = "str"
                    /\ Lower(Strip(probe.value.v))
                           \in {"sim", "yes", "y", "true", "verdade", "confirmo", "ok"} ->
                        PyBool(TRUE)
                 [] probe.value.t = "str"
                    /\ Lower(Strip(probe.value.v)) \in {"não", "nao", "no", "false", "n"} ->
                        PyBool(FALSE)
                 [] probe.value.t \in {"int", "float"} /\ probe.value.v = 0 ->
                        Get(probe.once.context, FIELD_SECTION_MAP[probe.field][1],
                            FIELD_SECTION_MAP[probe.field][2])
                 [] OTHER -> Get(probe.start, FIELD_SECTION_MAP[probe.field][1],
                                 FIELD_SECTION_MAP[probe.field][2])

\* C16: for renda_mensal and capital_social a non-zero number is stored with the same
\* numeric value, and the string "1.234,56" is stored as 1234.56
C16_NumericNormalization ==
    (probe.phase # "input" /\ probe.field \in FLOAT_KEYS) =>
        /\ (probe.value.t \in {"int", "float"} /\ probe.value.v # 0) =>
               Get(probe.once.context, FIELD_SECTION_MAP[probe.field][1],
                   FIELD_SECTION_MAP[probe.field][2])
                 = PyFloat(IF probe.value.t = "int" THEN 100 * probe.value.v
                           ELSE probe.value.v)
        /\ probe.value = PyStr("1.234,56") =>
               Get(probe.once.context, FIELD_SECTION_MAP[probe.field][1],
                   FIELD_SECTION_MAP[probe.field][2]) = PyFloat(123456)

\* C17: every stored section attribute holds the coercer's typed output for its
\* class: a boolean for an attribute of BOOL_KEYS, a number for one of INT_KEYS or
\* FLOAT_KEYS, the form NNN.NNN.NNN-NN for cpf
C17_TypedStorage ==
    probe.phase # "input" =>
        \A k \in DOMAIN probe.once.context.data :
            /\ k[2] \in BOOL_KEYS => probe.once.context.data[k].t = "bool"
            /\ k[2] \in INT_KEYS \cup FLOAT_KEYS =>
                   probe.once.context.data[k].t \in {"int", "float"}
            /\ k[2] = "cpf" =>
                   /\ probe.once.context.data[k].t = "str"
                   /\ Len(probe.once.context.data[k].v) = 14
                   /\ Len(KeepChars(probe.once.context.data[k].v, Digits)) = 11
                   /\ SubSeq(probe.once.context.data[k].v, 4, 4) = "."
                   /\ SubSeq(probe.once.context.data[k].v, 8, 8) = "."
                   /\ SubSeq(probe.once.context.data[k].v, 12, 12) = "-"

\* C18: the keys present in the sections are destination attributes of
\* FIELD_SECTION_MAP, and an extracted key that is not in the registry changes
\* nothing in the context
C18_ClosedKeySet ==
    probe.phase # "input" =>
        /\ \A k \in DOMAIN probe.once.context.data :
               \E f \in DOMAIN FIELD_SECTION_MAP : FIELD_SECTION_MAP[f] = k
        /\ probe.field \notin DOMAIN FIELD_SECTION_MAP =>
               probe.once.context = probe.start

\* C23 as stated: after an extraction that stores a renda_mensal of at least
\* QUALIFICATION_THRESHOLD, is_qualified is true and qualificacao has no missing field
C23_Original ==
    (probe.phase # "input" /\ probe.field = "renda_mensal" /\ ~probe.once.raised
        /\ Get(probe.once.context, "lead_data", "renda_mensal") # Get(probe.start, "lead_data", "renda_mensal")
        /\ Centi(Get(probe.once.context, "lead_data", "renda_mensal"))
               >= 100 * QUALIFICATION_THRESHOLD) =>
        /\ probe.once.context.is_qualified
        /\ _get_missing_fields("qualificacao", probe.once.context) = <<>>

\* C23: after an extraction that stores a renda_mensal of at least
\* QUALIFICATION_THRESHOLD, is_qualified is true; qualificacao has no missing field
\* exactly when the business profile holds tipo_negocio and estrutura_societaria,
\* faturamento_mei_ok for mei and numero_socios for socios, whatever the income
C23_QualifyingIncome ==
    (probe.phase # "input" /\ probe.field = "renda_mensal" /\ ~probe.once.raised
        /\ Get(probe.once.context, "lead_data", "renda_mensal") # Get(probe.start, "lead_data", "renda_mensal")
        /\ Centi(Get(probe.once.context, "lead_data", "renda_mensal"))
               >= 100 * QUALIFICATION_THRESHOLD) =>
        /\ probe.once.context.is_qualified
        /\ _get_missing_fields("qualificacao", probe.once.context) = <<>>
             <=> /\ Truthy(Get(probe.once.context, "business_profile", "tipo_negocio"))
                 /\ Truthy(Get(probe.once.context, "business_profile", "estrutura_societaria"))
                 /\ Get(probe.once.context, "business_profile", "estrutura_societaria")
                        = PyStr("mei") =>
                        Get(probe.once.context, "business_profile", "faturamento_mei_ok").t
                            # "none"
                 /\ Get(probe.once.context, "business_profile", "estrutura_societaria")
                        = PyStr("socios") =>
                        Truthy(Get(probe.once.context, "business_profile", "numero_socios"))

\* an income equal to the threshold stored in a context whose business profile is
\* complete
C23_Witness ==
    /\ probe.phase = "once"
    /\ probe.field = "renda_mensal"
    /\ probe.value = PyStr("5.000,00")
    /\ Get(probe.once.context, "lead_data", "renda_mensal") = PyFloat(500000)
    /\ probe.once.context.is_qualified
    /\ ~probe.start.is_qualified
    /\ _get_missing_fields("qualificacao", probe.once.context) = <<>>

\* C25 as stated: for a context whose stage is a primary stage other than concluido,
\* _determine_primary_stage returns the first stage of PRIMARY_STAGE_SEQUENCE whose
\* list of missing fields is not empty, and concluido when every list is empty
C25_Original ==
    probe.phase # "input" =>
        \A c \in {[probe.once.context EXCEPT !.stage = PRIMARY_STAGE_SEQUENCE[n]] :
                     n \in 1..(Len(PRIMARY_STAGE_SEQUENCE) - 1)} :
            _determine_primary_stage(c)
              = IF \A i \in 1..Len(PRIMARY_STAGE_SEQUENCE) :
                       _get_missing_fields(PRIMARY_STAGE_SEQUENCE[i], c) = <<>>
                THEN "concluido"
                ELSE PRIMARY_STAGE_SEQUENCE[
                         CHOOSE i \in 1..Len(PRIMARY_STAGE_SEQUENCE) :
                             /\ _get_missing_fields(PRIMARY_STAGE_SEQUENCE[i], c) # <<>>
                             /\ \A j \in 1..(i - 1) :
                                    _get_missing_fields(PRIMARY_STAGE_SEQUENCE[j], c) = <<>>]

\* C25: the same, for the contexts whose process_status.status is not "abandonado";
\* with that status the stage returned is abandonado
C25_Determinizer ==
    probe.phase # "input" =>
        \A c \in {[probe.once.context EXCEPT !.stage = PRIMARY_STAGE_SEQUENCE[n]] :
                     n \in 1..(Len(PRIMARY_STAGE_SEQUENCE) - 1)} :
            _determine_primary_stage(c)
              = IF Get(c, "process_status", "status") = PyStr("abandonado")
                THEN "abandonado"
                ELSE IF \A i \in 1..Len(PRIMARY_STAGE_SEQUENCE) :
                       _get_missing_fields(PRIMARY_STAGE_SEQUENCE[i], c) = <<>>
                THEN "concluido"
                ELSE PRIMARY_STAGE_SEQUENCE[
                         CHOOSE i \in 1..Len(PRIMARY_STAGE_SEQUENCE) :
                             /\ _get_missing_fields(PRIMARY_STAGE_SEQUENCE[i], c) # <<>>
                             /\ \A j \in 1..(i - 1) :
                                    _get_missing_fields(PRIMARY_STAGE_SEQUENCE[j], c) = <<>>]

\* the extraction that completes the last stage: every list of missing fields is
\* empty and the stage computed is concluido
C25_Witness ==
    /\ probe.phase = "once"
    /\ probe.field = "processo_finalizado"
    /\ probe.value = PyBool(TRUE)
    /\ _determine_primary_stage(probe.start) = "processamento"
    /\ \A i \in 1..Len(PRIMARY_STAGE_SEQUENCE) :
           _get_missing_fields(PRIMARY_STAGE_SEQUENCE[i], probe.once.context) = <<>>
    /\ _determine_primary_stage(probe.once.context) = "concluido"

C27_SideStateKept ==
    probe.phase # "input" =>
        \A side \in {"pausado", "abandonado"} :
            /\ _determine_primary_stage([probe.once.context EXCEPT !.stage = side]) = side
            /\ _route_conversation_state([probe.once.context EXCEPT !.stage = side], "oi") = side
            /\ _apply_stage_transition([probe.once.context EXCEPT !.stage = side], NoStage) = side

\* section data that give concluido to a context in a primary stage and leave a
\* paused context paused
C27_Witness ==
    /\ probe.phase = "once"
    /\ Get(probe.once.context, "process_status", "finalizado") = PyBool(TRUE)
    /\ _determine_primary_stage([probe.once.context EXCEPT !.stage = "revisao_final"])
           = "concluido"
    /\ _determine_primary_stage([probe.once.context EXCEPT !.stage = "pausado"]) = "pausado"

-----------------------------------------------------------------------------
(* The storage specification: turns and status reads of a new instance over *)
(* a record left by earlier turns, with a storage that works, whose read    *)
(* raises, or whose upsert raises                                           *)

\* what storage holds for the session: nothing, a record whose telefone does not
\* validate (written by the merge of an earlier turn), records with a short history
\* and with histories one below and at the limit
StoredRecords ==
    {NoRecord,
     StateWith(_serialize_context(
         _update_context_with_extracted_data(
             NewContext,
             PyDict(<<Entry("nome", PyStr("Ana")), Entry("telefone", PyStr("123"))>>)).context))}
    \cup {StateWith(_serialize_context(
              [NewContext EXCEPT
                  !.conversation_turns = n \div 2,
                  !.messages_exchanged =
                      [k \in 1..n |-> Message(IF k % 2 = 1 THEN "user" ELSE "assistant",
                                              "m" \o NatToStr(k))]])) :
            n \in {2, HISTORY_LIMIT - 1, HISTORY_LIMIT}}

InitStorage ==
    /\ store \in [SessionIds -> StoredRecords]
    /\ inst = [i \in Instances |-> NewWorkflow("s1")]
    /\ runs = 0
    /\ last = NoTurn
    /\ probe = [phase |-> "none"]
    /\ storage \in {"ok", "read_raises", "upsert_raises"}
    /\ pc = <<>>

\* status reads, and turns whose agent outcome carries no extracted object: a plain
\* reply, a reply whose extracted is a list, a raised agent call
NextStorage ==
    \/ \E i \in Instances : GetContext(i)
    \/ \E i \in Instances :
          \E r \in {x \in AgentReplies \cup {AGENT_FAILURE} :
                        Contains(x, "Otimo") \/ ~Contains(x, "\"extracted\": {")} :
              Run(i, "oi", r)

SpecStorage == InitStorage /\ [][NextStorage]_vars

\* C11: after a turn the history holds at most HISTORY_LIMIT entries, in the context
\* and in the record; it is the history the turn started from, oldest entries dropped
\* only when the limit is reached, followed by the entries the turn appended
C11_BoundedHistory ==
    last.op = "run" =>
        /\ Len(Acted.messages_exchanged) <= HISTORY_LIMIT
        /\ Len(Persisted("s1").messages_exchanged) <= HISTORY_LIMIT
        /\ \E d \in 0..Len(last.start.messages_exchanged) :
              /\ Len(Acted.messages_exchanged) - (Len(last.start.messages_exchanged) - d)
                     \in {1, 2}
              /\ SubSeq(Acted.messages_exchanged, 1, Len(last.start.messages_exchanged) - d)
                     = SubSeq(last.start.messages_exchanged, d + 1,
                              Len(last.start.messages_exchanged))
              /\ Acted.messages_exchanged[Len(last.start.messages_exchanged) - d + 1]
                     = Message("user", last.user_input)
              /\ d > 0 => Len(Acted.messages_exchanged) = HISTORY_LIMIT

\* C19: a new instance that loads a session whose record is absent, unreadable or
\* invalid obtains a context (nothing is raised): a new one when the record is absent
\* or unreadable, and one whose lead data pass validation, the stored telephone
\* "123" being absent from it, when the record is invalid
C19_LoadNeverRaises ==
    (last.op = "get" /\ last.fresh) =>
        /\ ~last.raised
        /\ Acted # NoContext
        /\ Acted.stage \in ConversationStage
        /\ LeadDataValid(Acted.data)
        /\ Get(Acted, "lead_data", "telefone") # PyStr("123")
        /\ (~last.had_record \/ storage = "read_raises") => Acted = NewContext
        /\ inst[last.instance].workflow_session_state = StateWith(_serialize_context(Acted))

\* the record holds the telephone "123", a new instance loads it and obtains a new
\* context
C19_Witness ==
    /\ last.op = "get"
    /\ last.fresh
    /\ storage = "ok"
    /\ Get(Persisted("s1"), "lead_data", "telefone") = PyStr("123")
    /\ Acted = NewContext

\* C20: a turn during which the upsert of the store fails raises nothing, returns the
\* reply of the turn, and leaves in the instance's context the history, the merged
\* fields, the stage and the turn count of the turn
C20_SaveFailureNotFatal ==
    (last.op = "run" /\ storage = "upsert_raises" /\ last.raw # AGENT_FAILURE
        /\ _parse_agent_response(last.raw).extracted.t = "dict") =>
        /\ ~last.raised
        /\ last.reply = _parse_agent_response(last.raw).message
        /\ Acted.messages_exchanged
             = _trim_history(last.start.messages_exchanged
                                 \o <<Message("user", last.user_input),
                                      Message("assistant", last.reply)>>, HISTORY_LIMIT)
        /\ Contains(last.raw, "\"nome\": \"Ana\"") =>
               Get(Acted, "lead_data", "nome_completo") = PyStr("Ana")
        /\ Acted.stage = last.canonical
        /\ Acted.conversation_turns = last.start.conversation_turns + 1

\* a turn with merged fields whose writes failed: the instance's context is ahead of
\* the record
C20_Witness ==
    /\ last.op = "run"
    /\ storage = "upsert_raises"
    /\ last.reply = "Otimo, Ana!"
    /\ Get(Acted, "lead_data", "nome_completo") = PyStr("Ana")
    /\ Get(Persisted("s1"), "lead_data", "nome_completo") # PyStr("Ana")
    /\ Acted.conversation_turns > Persisted("s1").conversation_turns

-----------------------------------------------------------------------------
(* The income specification: a session whose first turn collected the name and  *)
(* an income of 6.000,00, continued by turns whose replies carry the name, an   *)
(* income the coercer cannot read, or no data                                   *)

InitIncome ==
    /\ storage = "ok"
    /\ store = run(NewWorkflow("s1"), [s \in SessionIds |-> NoRecord], "oi",
                   "Entendi, Ana.\n---DATA---\n{\"extracted\": {\"nome\": \"Ana\", \"renda_mensal\": \"6.000,00\"}}").store
    /\ inst = [i \in Instances |-> NewWorkflow("s1")]
    /\ runs = 0
    /\ last = NoTurn
    /\ probe = [phase |-> "none"]
    /\ pc = <<>>

NextIncome ==
    \/ \E i \in Instances : Construct(i, "s1")
    \/ \E i \in Instances : GetContext(i)
    \/ \E i \in Instances, u \in UserInputs :
          \E r \in {x \in AgentReplies \cup {AGENT_FAILURE} :
                        Contains(x, "Ana") \/ ~Contains(x, DATA_MARKER)} :
              Run(i, u, r)

SpecIncome == InitIncome /\ [][NextIncome]_vars

\* C36: after a turn that completes, is_qualified is true exactly when renda_mensal
\* holds a number of at least QUALIFICATION_THRESHOLD
C36_DerivedFlag ==
    (last.op = "run" /\ ~last.raised) =>
        (Acted.is_qualified
            <=> /\ IsNumeric(Get(Acted, "lead_data", "renda_mensal"))
                /\ Centi(Get(Acted, "lead_data", "renda_mensal"))
                       >= 100 * QUALIFICATION_THRESHOLD)

-----------------------------------------------------------------------------
(* Lifecycle and stage rules over the session specification *)

\* C21: a status read or a turn never replaces the session's context (the one the
\* instance holds, or the record's when the instance has not loaded it yet) by a new
\* empty one: a positive turn count stays positive, stored section data stay, and a
\* non-empty fields_collected stays non-empty
C21_Lifecycle ==
    [][last'.op \in {"get", "run"} =>
          \A before \in {IF inst[last'.instance]._context # NoContext
                         THEN inst[last'.instance]._context ELSE Persisted("s1")} :
              /\ before.conversation_turns > 0 =>
                     inst'[last'.instance]._context.conversation_turns > 0
              /\ before.fields_collected # <<>> =>
                     inst'[last'.instance]._context.fields_collected # <<>>
              /\ DOMAIN before.data # {} =>
                     DOMAIN inst'[last'.instance]._context.data # {}]_vars

\* C24 as stated: a turn on an empty context whose parsed extraction is {} leaves the
\* stage at inicial
C24_Original ==
    (last.op = "run" /\ last.raw # AGENT_FAILURE /\ last.start = NewContext
        /\ _parse_agent_response(last.raw).extracted = EmptyDict) =>
        Acted.stage = "inicial"

\* C24: a turn on an empty context whose parsed extraction is {}, whose user input
\* holds no pause keyword and whose reply suggests no stage other than inicial,
\* leaves the stage at inicial, in the context and in the record
C24_ColdStart ==
    (last.op = "run" /\ last.raw # AGENT_FAILURE /\ last.start = NewContext
        /\ _parse_agent_response(last.raw).extracted = EmptyDict
        /\ ~_detect_completion_request(Lower(last.user_input))
        /\ _parse_agent_response(last.raw).suggested \in {NoStage, "inicial"}) =>
        /\ ~last.raised
        /\ Acted.stage = "inicial"
        /\ Persisted("s1").stage = "inicial"

\* the first turn of a session, the reply carrying an empty extraction and the
\* suggestion inicial
C24_Witness ==
    /\ last.op = "run"
    /\ last.start = NewContext
    /\ last.user_input = "oi"
    /\ last.reply = "Vamos voltar."
    /\ last.suggested = "inicial"
    /\ Acted.conversation_turns = 1
    /\ Acted.stage = "inicial"

\* C26: the stage in force at the start of a turn depends on the section data alone:
\* for a context whose persisted stage is a primary stage (inicial through concluido)
\* it is the stage computed for the same data with any stage from inicial to
\* processamento persisted
C26_SelfHealing ==
    (last.op = "run" /\ StageIndex(last.start.stage) # 0) =>
        \A n \in 1..(Len(PRIMARY_STAGE_SEQUENCE) - 1) :
            _determine_primary_stage(last.start)
              = _determine_primary_stage([last.start EXCEPT !.stage = PRIMARY_STAGE_SEQUENCE[n]])

\* C28: a turn whose user input holds a pause keyword, started in a stage other than
\* processamento and concluido, persists the stage pausado whatever the reply
\* suggests; started in processamento or concluido, it is not paused by the keyword
C28_PausePriority ==
    (last.op = "run" /\ _detect_completion_request(Lower(last.user_input))) =>
        IF _determine_primary_stage(last.start) \in {"processamento", "concluido"}
        THEN Persisted("s1").stage = "pausado" => last.suggested = "pausado"
        ELSE Persisted("s1").stage = "pausado"

\* C29: a turn whose reply suggests pausado or abandonado and whose user input holds
\* no pause keyword ends in the suggested stage, in the context and in the record;
\* the transition policy gives the suggested stage from every stage the context
\* may be in
C29_SideSuggestion ==
    last.op = "run" =>
        /\ (last.suggested \in {"pausado", "abandonado"}
               /\ ~_detect_completion_request(Lower(last.user_input))) =>
               /\ Acted.stage = last.suggested
               /\ Persisted("s1").stage = last.suggested
        /\ \A stage \in ConversationStage, side \in {"pausado", "abandonado"} :
               _apply_stage_transition([Acted EXCEPT !.stage = stage], side) = side

\* a paused session taken to abandonado by the suggestion of the reply
C29_Witness ==
    /\ last.op = "run"
    /\ last.start.stage = "pausado"
    /\ last.user_input = "oi"
    /\ last.suggested = "abandonado"
    /\ Acted.stage = "abandonado"
    /\ Persisted("s1").stage = "abandonado"

C32_PersistBeforeReply ==
    last.op = "run" =>
        /\ last.yielded = store[inst[last.instance].session_id]
        /\ last.yielded.kind = "dict"
        /\ last.yielded.context = Acted

\* C33: the context an instance holds, serialised with _serialize_context and built
\* again from the serialised form, is the same context: stage, section values,
\* messages, fields collected, turn count and qualification flag
C33_RecordRoundTrip ==
    \A i \in DOMAIN inst :
        inst[i]._context # NoContext =>
            /\ ConversationContextFrom(_serialize_context(inst[i]._context)).ok
            /\ ConversationContextFrom(_serialize_context(inst[i]._context)).context
                 = inst[i]._context

\* C35: a turn on a paused session whose user input holds no pause keyword and whose
\* reply suggests the pending stage (the stage the collected data give once the side
\* state is set aside) returns the session to that stage
C35_Reactivation ==
    (/\ last.op = "run"
     /\ ~last.raised
     /\ last.start.stage = "pausado"
     /\ ~_detect_completion_request(Lower(last.user_input))
     /\ StageIndex(last.suggested) > 0
     /\ last.suggested = _determine_primary_stage([Acted EXCEPT !.stage = "inicial"]))
        => /\ Acted.stage = last.suggested
           /\ Persisted("s1").stage = last.suggested

\* C38: the reply a turn returns for an agent answer that holds the data marker holds
\* neither the marker nor the structured part, also when the answer has nothing
\* before the marker
C38_ReplyIsPartOne ==
    (last.op = "run" /\ Contains(last.raw, DATA_MARKER)) =>
        /\ ~Contains(last.reply, DATA_MARKER)
        /\ ~Contains(last.reply, "\"extracted\"")

-----------------------------------------------------------------------------
(* The two-session specification: two long-lived workflow objects over the   *)
(* one storage both obtain from the cache, the first constructed for session *)
(* s1, the second for s2 or for s1 as well                                   *)

InitSessions ==
    /\ store = [s \in {"s1", "s2"} |-> NoRecord]
    /\ inst = [i \in {"w1", "w2"} |-> NewWorkflow(IF i = "w1" THEN "s1" ELSE "s2")]
    /\ runs = 0
    /\ last = NoTurn
    /\ probe = [phase |-> "none"]
    /\ storage = "ok"
    /\ pc = <<>>

NextSessions ==
    \/ \E i \in {"w1", "w2"}, s \in {"s1", "s2"} : (i = "w1" => s = "s1") /\ Construct(i, s)
    \/ \E i \in {"w1", "w2"} : GetContext(i)
    \/ \E i \in {"w1", "w2"} :
          \E r \in {x \in AgentReplies : \/ Contains(x, "tipo_negocio")
                                        \/ Contains(x, "renda_mensal")
                                        \/ ~Contains(x, DATA_MARKER)} :
              Run(i, "oi", r)
    \/ \E i \in {"w1", "w2"} : Reset(i)

SpecSessions == InitSessions /\ [][NextSessions]_vars

\* C22: a turn or a reset on one session leaves the record of every other session and
\* the state of every instance of another session as they were
C22_SessionIndependence ==
    [][last'.op \in {"run", "reset"} =>
          /\ \A s \in DOMAIN store :
                 s # inst[last'.instance].session_id => store'[s] = store[s]
          /\ \A i \in DOMAIN inst :
                 inst[i].session_id # inst[last'.instance].session_id => inst'[i] = inst[i]]_vars

\* a turn on session s1 while session s2 has a record and a context with data
C22_Witness ==
    /\ last.op = "run"
    /\ last.instance = "w1"
    /\ ~last.raised
    /\ store["s2"].kind = "dict"
    /\ inst["w2"]._context # NoContext
    /\ Get(inst["w2"]._context, "lead_data", "nome_completo") = PyStr("Ana")
    /\ store["s2"].context # store["s1"].context

\* C39: a turn starts from the record persisted for the session of its instance,
\* also when another instance of the same session completed a turn after this
\* instance loaded its context (serial turns of two long-lived instances)
C39_ReadThrough ==
    [][(last'.op = "run" /\ store[inst[last'.instance].session_id].kind = "dict") =>
          last'.start = store[inst[last'.instance].session_id].context]_vars

-----------------------------------------------------------------------------
(* The overlapping-calls specification.  The message handler creates a workflow  *)
(* object for the session id of the sender and iterates run() on it; nothing in  *)
(* the handler or in the workflow holds a lock.  The steps of run() that read or *)
(* write the store are separate actions, so that two calls for one session id    *)
(* overlap.  pc.serial says whether the caller lets one call at a time through.  *)

InitRace ==
    /\ store = [s \in SessionIds |-> NoRecord]
    /\ inst = [i \in {"w1", "w2"} |-> NewWorkflow("s1")]
    /\ runs = 0
    /\ last = NoTurn
    /\ probe = [phase |-> "none"]
    /\ storage = "ok"
    /\ pc \in {[serial |-> b, at |-> [i \in {"w1", "w2"} |-> "idle"], merged |-> {}] :
                  b \in BOOLEAN}

\* handle_message: get_lead_conversion_workflow(session_id), then run() up to the
\* load of the context and the stage computed from it
RaceBegin(i) ==
    /\ runs < MaxRuns
    /\ pc.at[i] = "idle"
    /\ pc.serial => \A j \in DOMAIN pc.at : pc.at[j] = "idle"
    /\ inst' = [inst EXCEPT ![i] = _ensure_context(NewWorkflow("s1"), store)]
    /\ pc' = [pc EXCEPT !.at[i] = "loaded"]
    /\ runs' = runs + 1
    /\ last' = [NoTurn EXCEPT !.op = "begin", !.instance = i,
                              !.had_record = store["s1"].kind = "dict"]
    /\ UNCHANGED <<store, probe, storage>>

\* run(): the stage is set to the computed one and the user message is recorded
RaceRecord(i, user_input) ==
    /\ pc.at[i] = "loaded"
    /\ inst' = [inst EXCEPT ![i] =
                   Record(inst[i], store, user_input,
                          _determine_primary_stage(inst[i]._context)).w]
    /\ store' = Record(inst[i], store, user_input,
                       _determine_primary_stage(inst[i]._context)).store
    /\ pc' = [pc EXCEPT !.at[i] = "recorded"]
    /\ last' = [NoTurn EXCEPT !.op = "record", !.instance = i, !.user_input = user_input]
    /\ UNCHANGED <<runs, probe, storage>>

\* run(): the router, the stage agent answering raw, the postprocess step
RacePostprocess(i, user_input, raw) ==
    /\ pc.at[i] = "recorded"
    /\ inst' = [inst EXCEPT ![i] =
                   _postprocess_agent_output(
                       _store_context_in_state(
                           [inst[i] EXCEPT !._context.stage =
                               _route_conversation_state(inst[i]._context, user_input)]),
                       store, _stage_executor(raw)).w]
    /\ store' = _postprocess_agent_output(
                    _store_context_in_state(
                        [inst[i] EXCEPT !._context.stage =
                            _route_conversation_state(inst[i]._context, user_input)]),
                    store, _stage_executor(raw)).store
    /\ pc' = [pc EXCEPT !.at[i] = "yielded", !.merged = @ \cup {raw}]
    /\ last' = [NoTurn EXCEPT !.op = "postprocess", !.instance = i,
                              !.user_input = user_input, !.raw = raw]
    /\ UNCHANGED <<runs, probe, storage>>

\* run(): the finally clause, reached when the handler has taken the reply
RaceFinally(i, user_input) ==
    /\ pc.at[i] = "yielded"
    /\ inst' = [inst EXCEPT ![i] = _persist_context(inst[i], store, inst[i]._context).w]
    /\ store' = _persist_context(inst[i], store, inst[i]._context).store
    /\ pc' = [pc EXCEPT !.at[i] = "idle"]
    /\ last' = [NoTurn EXCEPT !.op = "run", !.instance = i, !.user_input = user_input]
    /\ UNCHANGED <<runs, probe, storage>>

\* the first handler receives "oi", the second "sim"
NextRace ==
    \/ \E i \in {"w1", "w2"} : RaceBegin(i)
    \/ \E i \in {"w1", "w2"} : RaceRecord(i, IF i = "w1" THEN "oi" ELSE "sim")
    \/ \E i \in {"w1", "w2"} :
          \E r \in {x \in AgentReplies : Contains(x, "Prazer") \/ Contains(x, "Combinado")
                                            \/ ~Contains(x, DATA_MARKER)} :
              RacePostprocess(i, IF i = "w1" THEN "oi" ELSE "sim", r)
    \/ \E i \in {"w1", "w2"} : RaceFinally(i, IF i = "w1" THEN "oi" ELSE "sim")

SpecRace == InitRace /\ [][NextRace]_vars

\* C34: when the caller lets one call at a time through for the session id, every
\* state in which no call is under way has a record that holds what every turn
\* persisted (one user and one assistant message a turn, the turn count, the fields
\* of the replies merged); without that discipline two calls that both load the context before
\* either persists reach a record from which a turn's message or field is absent
C34_SerialisedNoLoss ==
    (pc.serial /\ \A i \in DOMAIN pc.at : pc.at[i] = "idle") =>
        /\ \A role \in {"user", "assistant"} :
               Cardinality({k \in 1..Len(Persisted("s1").messages_exchanged) :
                               Persisted("s1").messages_exchanged[k].role = role}) = runs
        /\ Persisted("s1").conversation_turns = runs
        /\ (\E r \in pc.merged : Contains(r, "Prazer"))
              => Get(Persisted("s1"), "lead_data", "nome_completo") = PyStr("Ana")
        /\ (\E r \in pc.merged : Contains(r, "Combinado"))
              => Get(Persisted("s1"), "proposal_status", "aceite_proposta") = PyBool(TRUE)

\* two overlapping calls have ended and the record lacks what one of them persisted
C34_Witness ==
    /\ ~pc.serial
    /\ \A i \in DOMAIN pc.at : pc.at[i] = "idle"
    /\ runs = 2
    /\ \E r \in pc.merged : Contains(r, "Prazer")
    /\ \E r \in pc.merged : Contains(r, "Combinado")
    /\ Len(Persisted("s1").messages_exchanged) = 2
    /\ Get(Persisted("s1"), "lead_data", "nome_completo") # PyStr("Ana")

====
